---- MODULE Spec2Model ----
(***************************************************************************)
(* LocalTable / LocalGraph metadata inference and validation engine of the *)
(* KumoRFM TypeScript SDK (src/src/core/LocalTable.ts, LocalGraph.ts,      *)
(* src/src/utils/data.ts).                                                 *)
(*                                                                         *)
(* Strings are sequences of one-character strings, so that endsWith,       *)
(* replace, toLowerCase and concatenation are computed, not looked up.     *)
(* An optional field (primaryKey?: string, columns?: ColumnMetadata[],     *)
(* _schema?) is a sequence of length 0 (undefined) or 1 (the value).       *)
(***************************************************************************)
EXTENDS Integers, Sequences, FiniteSets, TLC

VARIABLES
    tables,        \* LocalGraph._tables: insertion-ordered Map, as a sequence of LocalTable objects
    links,         \* LocalGraph._links
    validated,     \* LocalGraph._validated
    lenientDates,  \* whether this engine's Date.parse accepts a bare small number ("1")
    builder,       \* the fields of a PQLBuilder
    called,        \* the names of the PQLBuilder methods called on it so far
    result         \* outcome of the last call: what it threw, what it returned

vars == <<tables, links, validated, lenientDates, builder, called, result>>

-----------------------------------------------------------------------------
(* Bounds *)

MaxLinks == 3      \* longest link list explored
MaxRows == 2       \* most rows a mutated table holds
MaxFields == 2     \* most fragments one clause of a query builder holds
MaxTokens == 4     \* most fragments a parsed query string is put together from
MaxValues == 4     \* most values of a column handed to type inference

-----------------------------------------------------------------------------
(* Strings *)

Str_id == <<"i", "d">>
Str_at == <<"a", "t">>
Str_b_id == <<"b", "_", "i", "d">>
Str_cId == <<"c", "I", "d">>
Str_as_id == <<"a", "s", "_", "i", "d">>
Str_nope == <<"n", "o">>
Str_a == <<"a">>
Str_bs == <<"b", "s">>
Str_C == <<"C">>
Str_zz == <<"z", "z">>
Str_t == <<"t">>
Str_users == <<"u", "s", "e", "r", "s">>
Str_user == <<"u", "s", "e", "r">>
Str_orders == <<"o", "r", "d", "e", "r", "s">>
Str_order == <<"o", "r", "d", "e", "r">>
Str_user_id == <<"u", "s", "e", "r", "_", "i", "d">>
Str_order_id == <<"o", "r", "d", "e", "r", "_", "i", "d">>
Str_amount == <<"a", "m", "o", "u", "n", "t">>
Str_order_user_id == <<"o", "r", "d", "e", "r", "_", "u", "s", "e", "r", "_", "i", "d">>

None == << >>
Some(v) == <<v>>

\* JavaScript truthiness of an optional string: undefined and '' are falsy.
Truthy(opt) == opt # None /\ opt[1] # << >>

EndsWith(s, suffix) ==
    /\ Len(s) >= Len(suffix)
    /\ SubSeq(s, Len(s) - Len(suffix) + 1, Len(s)) = suffix

LowerChar(c) ==
    CASE c = "A" -> "a" [] c = "B" -> "b" [] c = "C" -> "c" [] c = "D" -> "d"
      [] c = "I" -> "i" [] c = "S" -> "s" [] c = "T" -> "t" [] c = "Z" -> "z"
      [] OTHER -> c

ToLowerCase(s) == [i \in 1..Len(s) |-> LowerChar(s[i])]

\* columnName.replace(/_id$|Id$/, '')
StripIdSuffix(s) ==
    IF EndsWith(s, <<"_", "i", "d">>) THEN SubSeq(s, 1, Len(s) - 3)
    ELSE IF EndsWith(s, <<"I", "d">>) THEN SubSeq(s, 1, Len(s) - 2)
    ELSE s

-----------------------------------------------------------------------------
(* Cell values and rows *)

VNull == [k |-> "null", v |-> 0]
VUndefined == [k |-> "undefined", v |-> 0]
VNum(n) == [k |-> "number", v |-> n]
VDate(n) == [k |-> "isodate", v |-> n]      \* an ISO 8601 date string
VNumStr(n) == [k |-> "numstr", v |-> n]     \* a numeric string such as "1"
VText(n) == [k |-> "text", v |-> n]         \* a string that is neither a number nor a date

\* v != null
NonNull(v) == v.k \notin {"null", "undefined"}

\* v instanceof Date || !isNaN(Date.parse(v)).  Date.parse of a string that is
\* not in the ISO format is implementation-defined: V8 reads "1" as a date.
DateParseable(v, lenient) ==
    \/ v.k = "isodate"
    \/ v.k \in {"number", "numstr"} /\ lenient

\* typeof v === 'number' || !isNaN(Number(v))
NumberLike(v) == v.k \in {"number", "numstr"}

\* A row is an object: a sequence of <<key, value>> pairs in key order.
RowKeys(row) == [i \in 1..Len(row) |-> row[i][1]]

RowGet(row, key) ==
    IF \E i \in 1..Len(row) : row[i][1] = key
    THEN row[CHOOSE i \in 1..Len(row) : row[i][1] = key][2]
    ELSE VUndefined

Range(s) == {s[i] : i \in 1..Len(s)}

Includes(s, x) == x \in Range(s)

FilterNonNull(values) == SelectSeq(values, NonNull)

-----------------------------------------------------------------------------
(* DataFrameUtils *)

inferColumnType(values, lenient) ==
    LET nonNullValues == FilterNonNull(values)
        uniqueValues == Range(nonNullValues)
    IN  IF Len(nonNullValues) = 0 THEN "text"
        ELSE IF \A i \in 1..Len(nonNullValues) : DateParseable(nonNullValues[i], lenient)
             THEN "time_column"
        ELSE IF \A i \in 1..Len(nonNullValues) : NumberLike(nonNullValues[i])
             THEN "numerical"
        ELSE IF 2 * Cardinality(uniqueValues) < Len(nonNullValues)
             THEN "categorical"
        ELSE "text"

analyzeColumn(data, columnName, lenient) ==
    LET nonNullValues == FilterNonNull(data)
    IN  [name |-> columnName,
         type |-> inferColumnType(data, lenient),
         nullable |-> Len(data) # Len(nonNullValues),
         primaryKey |-> FALSE,
         uniqueValues |-> Cardinality(Range(nonNullValues)),
         nullCount |-> Len(data) - Len(nonNullValues)]

-----------------------------------------------------------------------------
(* LocalTable *)

NoMetadata == [primaryKey |-> None, timeColumn |-> None, columns |-> None]

\* new LocalTable(data, name, metadata): { semanticTypes: {}, ...metadata }
NewLocalTable(data, name, metadata) ==
    [name |-> name,
     data |-> data,
     metadata |-> [primaryKey |-> metadata.primaryKey,
                   timeColumn |-> metadata.timeColumn,
                   semanticTypes |-> << >>,
                   columns |-> metadata.columns],
     schema |-> None]

\* Variant of Columns: the declared or inferred column metadata, when there
\* is any, names the columns; the first row's keys only otherwise.
ColumnsFromMetadata(t) ==
    IF t.metadata.columns # None
    THEN [i \in 1..Len(t.metadata.columns[1]) |-> t.metadata.columns[1][i].name]
    ELSE IF Len(t.data) = 0 THEN << >> ELSE RowKeys(t.data[1])

\* get columns()
Columns(t) == IF Len(t.data) = 0 THEN << >> ELSE RowKeys(t.data[1])

ColumnData(t, columnName) == [r \in 1..Len(t.data) |-> RowGet(t.data[r], columnName)]

\* Record<string, SemanticType> as a sequence of <<name, type>> entries in
\* insertion order; assigning an existing key keeps its position.
SetEntry(obj, key, val) ==
    IF \E i \in 1..Len(obj) : obj[i][1] = key
    THEN [i \in 1..Len(obj) |-> IF obj[i][1] = key THEN <<key, val>> ELSE obj[i]]
    ELSE Append(obj, <<key, val>>)

HasEntry(obj, key) == \E i \in 1..Len(obj) : obj[i][1] = key

GetEntry(obj, key) == obj[CHOOSE i \in 1..Len(obj) : obj[i][1] = key][2]

\* One pass of the for-loop of inferMetadata over this.columns, from index i.
\* acc = [primaryKey, timeColumn, semanticTypes, columns]
RECURSIVE InferLoop(_, _, _, _)
\* Variant of the loop: every qualifying column overwrites the primary key.
InferLoopLastKeyWins(t, i, acc, lenient) ==
    IF i > Len(Columns(t)) THEN acc
    ELSE
      LET columnName == Columns(t)[i]
          columnMeta == analyzeColumn(ColumnData(t, columnName), columnName, lenient)
          isTime == columnMeta.type = "time_column"
          isKey == columnMeta.uniqueValues = Len(t.data) /\ ~columnMeta.nullable
      IN  InferLoop(t, i + 1,
                    [primaryKey |-> IF isKey THEN Some(columnName) ELSE acc.primaryKey,
                     timeColumn |-> IF isTime /\ ~Truthy(acc.timeColumn)
                                    THEN Some(columnName) ELSE acc.timeColumn,
                     semanticTypes |->
                         IF columnMeta.type \in {"time_column", "numerical", "categorical"}
                         THEN SetEntry(acc.semanticTypes, columnName, columnMeta.type)
                         ELSE acc.semanticTypes,
                     columns |-> Append(acc.columns, [columnMeta EXCEPT !.primaryKey = isKey])],
                    lenient)

\* Variant of the loop: a column is a key candidate when its distinct values
\* number the row count recorded by the previous inference, when there is one.
InferLoopStaleRowCount(t, i, acc, lenient) ==
    IF i > Len(Columns(t)) THEN acc
    ELSE
      LET columnName == Columns(t)[i]
          columnMeta == analyzeColumn(ColumnData(t, columnName), columnName, lenient)
          isTime == columnMeta.type = "time_column"
          rowCount == IF t.schema # None THEN t.schema[1].rowCount ELSE Len(t.data)
          isKey == columnMeta.uniqueValues = rowCount /\ ~columnMeta.nullable
      IN  InferLoop(t, i + 1,
                    [primaryKey |-> IF isKey /\ ~Truthy(acc.primaryKey)
                                    THEN Some(columnName) ELSE acc.primaryKey,
                     timeColumn |-> IF isTime /\ ~Truthy(acc.timeColumn)
                                    THEN Some(columnName) ELSE acc.timeColumn,
                     semanticTypes |->
                         IF columnMeta.type \in {"time_column", "numerical", "categorical"}
                         THEN SetEntry(acc.semanticTypes, columnName, columnMeta.type)
                         ELSE acc.semanticTypes,
                     columns |-> Append(acc.columns, [columnMeta EXCEPT !.primaryKey = isKey])],
                    lenient)

\* Variant of the loop: every temporal column overwrites the time column.
InferLoopLastTimeWins(t, i, acc, lenient) ==
    IF i > Len(Columns(t)) THEN acc
    ELSE
      LET columnName == Columns(t)[i]
          columnMeta == analyzeColumn(ColumnData(t, columnName), columnName, lenient)
          isTime == columnMeta.type = "time_column"
          isKey == columnMeta.uniqueValues = Len(t.data) /\ ~columnMeta.nullable
      IN  InferLoop(t, i + 1,
                    [primaryKey |-> IF isKey /\ ~Truthy(acc.primaryKey)
                                    THEN Some(columnName) ELSE acc.primaryKey,
                     timeColumn |-> IF isTime THEN Some(columnName) ELSE acc.timeColumn,
                     semanticTypes |->
                         IF columnMeta.type \in {"time_column", "numerical", "categorical"}
                         THEN SetEntry(acc.semanticTypes, columnName, columnMeta.type)
                         ELSE acc.semanticTypes,
                     columns |-> Append(acc.columns, [columnMeta EXCEPT !.primaryKey = isKey])],
                    lenient)

InferLoop(t, i, acc, lenient) ==
    IF i > Len(Columns(t)) THEN acc
    ELSE
      LET columnName == Columns(t)[i]
          columnMeta == analyzeColumn(ColumnData(t, columnName), columnName, lenient)
          isTime == columnMeta.type = "time_column"
          semanticTypes1 ==
              IF columnMeta.type \in {"time_column", "numerical", "categorical"}
              THEN SetEntry(acc.semanticTypes, columnName, columnMeta.type)
              ELSE acc.semanticTypes
          timeColumn1 ==
              IF isTime /\ ~Truthy(acc.timeColumn) THEN Some(columnName) ELSE acc.timeColumn
          isKey == columnMeta.uniqueValues = Len(t.data) /\ ~columnMeta.nullable
          primaryKey1 ==
              IF isKey /\ ~Truthy(acc.primaryKey) THEN Some(columnName) ELSE acc.primaryKey
          columnMeta1 == [columnMeta EXCEPT !.primaryKey = isKey]
      IN  InferLoop(t, i + 1,
                    [primaryKey |-> primaryKey1,
                     timeColumn |-> timeColumn1,
                     semanticTypes |-> semanticTypes1,
                     columns |-> Append(acc.columns, columnMeta1)],
                    lenient)

\* Variant of inferMetadata: the guard against an empty table is left out.
inferMetadataNoEmptyCheck(t, lenient) ==
    LET acc == InferLoop(t, 1,
                         [primaryKey |-> t.metadata.primaryKey,
                          timeColumn |-> t.metadata.timeColumn,
                          semanticTypes |-> << >>,
                          columns |-> << >>],
                         lenient)
    IN  [threw |-> "none",
         table |-> [t EXCEPT
                      !.metadata = [primaryKey |-> acc.primaryKey,
                                    timeColumn |-> acc.timeColumn,
                                    semanticTypes |-> acc.semanticTypes,
                                    columns |-> Some(acc.columns)],
                      !.schema = Some([name |-> t.name,
                                       columns |-> acc.columns,
                                       rowCount |-> Len(t.data)])]]

\* inferMetadata(): [threw, table]
inferMetadata(t, lenient) ==
    IF Len(t.data) = 0
    THEN [threw |-> "DataError", table |-> t]
    ELSE
      LET acc == InferLoop(t, 1,
                           [primaryKey |-> t.metadata.primaryKey,
                            timeColumn |-> t.metadata.timeColumn,
                            semanticTypes |-> << >>,
                            columns |-> << >>],
                           lenient)
      IN  [threw |-> "none",
           table |-> [t EXCEPT
                        !.metadata = [primaryKey |-> acc.primaryKey,
                                      timeColumn |-> acc.timeColumn,
                                      semanticTypes |-> acc.semanticTypes,
                                      columns |-> Some(acc.columns)],
                        !.schema = Some([name |-> t.name,
                                         columns |-> acc.columns,
                                         rowCount |-> Len(t.data)])]]

\* Variant of setPrimaryKey: a primary key that is already set is kept.
setPrimaryKeyIfUnset(t, columnName) ==
    IF ~Includes(Columns(t), columnName)
    THEN [threw |-> "ValidationError", table |-> t]
    ELSE [threw |-> "none",
          table |-> IF Truthy(t.metadata.primaryKey) THEN t
                    ELSE [t EXCEPT !.metadata.primaryKey = Some(columnName)]]

\* setPrimaryKey(columnName): [threw, table]
setPrimaryKey(t, columnName) ==
    IF ~Includes(Columns(t), columnName)
    THEN [threw |-> "ValidationError", table |-> t]
    ELSE [threw |-> "none",
          table |-> [t EXCEPT !.metadata.primaryKey = Some(columnName)]]

\* setTimeColumn(columnName): [threw, table]
setTimeColumn(t, columnName) ==
    IF ~Includes(Columns(t), columnName)
    THEN [threw |-> "ValidationError", table |-> t]
    ELSE [threw |-> "none",
          table |-> [t EXCEPT
                       !.metadata.timeColumn = Some(columnName),
                       !.metadata.semanticTypes =
                           SetEntry(t.metadata.semanticTypes, columnName, "time_column")]]

Issue(type, field, table) == [type |-> type, field |-> field, table |-> table]

\* (col.nullCount || 0) / this._data.length > 0.5, in IEEE arithmetic:
\* n/0 is Infinity for n > 0 and NaN for n = 0.
HighNullRate(nullCount, rowCount) ==
    IF rowCount = 0 THEN nullCount > 0 ELSE 2 * nullCount > rowCount

\* Variant of TableValidate: a missing primary key is reported only for a
\* table on which inference has run.
TableValidateOnlyAfterInference(t) ==
    LET errors ==
            IF ~Truthy(t.metadata.primaryKey) /\ t.metadata.columns # None
            THEN << Issue("MISSING_PRIMARY_KEY", None, Some(t.name)) >>
            ELSE << >>
        cols == IF t.metadata.columns = None THEN << >> ELSE t.metadata.columns[1]
        high == SelectSeq(cols, LAMBDA col : HighNullRate(col.nullCount, Len(t.data)))
        warnings == [i \in 1..Len(high) |->
                        Issue("HIGH_NULL_RATE", Some(high[i].name), Some(t.name))]
    IN  [valid |-> Len(errors) = 0, errors |-> errors, warnings |-> warnings]

\* LocalTable.validate()
TableValidate(t) ==
    LET errors ==
            IF ~Truthy(t.metadata.primaryKey)
            THEN << Issue("MISSING_PRIMARY_KEY", None, Some(t.name)) >>
            ELSE << >>
        cols == IF t.metadata.columns = None THEN << >> ELSE t.metadata.columns[1]
        high == SelectSeq(cols, LAMBDA col : HighNullRate(col.nullCount, Len(t.data)))
        warnings == [i \in 1..Len(high) |->
                        Issue("HIGH_NULL_RATE", Some(high[i].name), Some(t.name))]
    IN  [valid |-> Len(errors) = 0, errors |-> errors, warnings |-> warnings]

-----------------------------------------------------------------------------
(* LocalGraph *)

\* new LocalGraph(tables): Map.set keeps the first insertion position of a
\* name and replaces the value.
RECURSIVE NewTableMap(_, _)
NewTableMap(list, map) ==
    IF list = << >> THEN map
    ELSE LET t == Head(list)
             map1 == IF \E i \in 1..Len(map) : map[i].name = t.name
                     THEN [i \in 1..Len(map) |-> IF map[i].name = t.name THEN t ELSE map[i]]
                     ELSE Append(map, t)
         IN  NewTableMap(Tail(list), map1)

\* Array.from(this._tables.keys())
TableNames(tbls) == [i \in 1..Len(tbls) |-> tbls[i].name]

HasTable(tbls, name) == \E i \in 1..Len(tbls) : tbls[i].name = name

GetTable(tbls, name) == tbls[CHOOSE i \in 1..Len(tbls) : tbls[i].name = name]

SameTriple(l, srcTable, fkey, dstTable) ==
    l.srcTable = srcTable /\ l.fkey = fkey /\ l.dstTable = dstTable

\* Variant of link: the search for an existing identical link is left out.
linkNoDuplicateCheck(tbls, lnks, srcTable, fkey, dstTable) ==
    IF ~HasTable(tbls, srcTable)
    THEN [threw |-> "ValidationError", msg |-> "source table not found", links |-> lnks]
    ELSE IF ~HasTable(tbls, dstTable)
    THEN [threw |-> "ValidationError", msg |-> "destination table not found", links |-> lnks]
    ELSE IF ~Includes(Columns(GetTable(tbls, srcTable)), fkey)
    THEN [threw |-> "ValidationError", msg |-> "foreign key not found", links |-> lnks]
    ELSE [threw |-> "none", msg |-> "",
          links |-> Append(lnks, [srcTable |-> srcTable, fkey |-> fkey,
                                  dstTable |-> dstTable, validated |-> FALSE])]

\* Variant of link: a duplicate raises only after the link has been pushed.
linkPushesBeforeCheck(tbls, lnks, srcTable, fkey, dstTable) ==
    LET pushed == Append(lnks, [srcTable |-> srcTable, fkey |-> fkey,
                                dstTable |-> dstTable, validated |-> FALSE])
    IN  IF ~HasTable(tbls, srcTable)
        THEN [threw |-> "ValidationError", msg |-> "source table not found", links |-> lnks]
        ELSE IF ~HasTable(tbls, dstTable)
        THEN [threw |-> "ValidationError", msg |-> "destination table not found", links |-> lnks]
        ELSE IF ~Includes(Columns(GetTable(tbls, srcTable)), fkey)
        THEN [threw |-> "ValidationError", msg |-> "foreign key not found", links |-> lnks]
        ELSE IF \E i \in 1..Len(lnks) : SameTriple(lnks[i], srcTable, fkey, dstTable)
        THEN [threw |-> "ValidationError", msg |-> "link already exists", links |-> pushed]
        ELSE [threw |-> "none", msg |-> "", links |-> pushed]

\* Variant of link: the destination table is not looked up.
linkNoDestinationCheck(tbls, lnks, srcTable, fkey, dstTable) ==
    IF ~HasTable(tbls, srcTable)
    THEN [threw |-> "ValidationError", msg |-> "source table not found", links |-> lnks]
    ELSE IF ~Includes(Columns(GetTable(tbls, srcTable)), fkey)
    THEN [threw |-> "ValidationError", msg |-> "foreign key not found", links |-> lnks]
    ELSE IF \E i \in 1..Len(lnks) : SameTriple(lnks[i], srcTable, fkey, dstTable)
    THEN [threw |-> "ValidationError", msg |-> "link already exists", links |-> lnks]
    ELSE [threw |-> "none", msg |-> "",
          links |-> Append(lnks, [srcTable |-> srcTable, fkey |-> fkey,
                                  dstTable |-> dstTable, validated |-> FALSE])]

\* link(srcTable, fkey, dstTable): [threw, msg, links]
link(tbls, lnks, srcTable, fkey, dstTable) ==
    IF ~HasTable(tbls, srcTable)
    THEN [threw |-> "ValidationError", msg |-> "source table not found", links |-> lnks]
    ELSE IF ~HasTable(tbls, dstTable)
    THEN [threw |-> "ValidationError", msg |-> "destination table not found", links |-> lnks]
    ELSE IF ~Includes(Columns(GetTable(tbls, srcTable)), fkey)
    THEN [threw |-> "ValidationError", msg |-> "foreign key not found", links |-> lnks]
    ELSE IF \E i \in 1..Len(lnks) : SameTriple(lnks[i], srcTable, fkey, dstTable)
    THEN [threw |-> "ValidationError", msg |-> "link already exists", links |-> lnks]
    ELSE [threw |-> "none", msg |-> "",
          links |-> Append(lnks, [srcTable |-> srcTable, fkey |-> fkey,
                                  dstTable |-> dstTable, validated |-> FALSE])]

\* Variant of Splice1: splice(index) without a count removes through the end.
SpliceToEnd(lnks, index) == SubSeq(lnks, 1, index - 1)

\* this._links.splice(index, 1)
Splice1(lnks, index) ==
    SubSeq(lnks, 1, index - 1) \o SubSeq(lnks, index + 1, Len(lnks))

\* unlink(srcTable, fkey, dstTable): [threw, links]
unlink(lnks, srcTable, fkey, dstTable) ==
    IF ~\E i \in 1..Len(lnks) : SameTriple(lnks[i], srcTable, fkey, dstTable)
    THEN [threw |-> "ValidationError", links |-> lnks]
    ELSE LET index == CHOOSE i \in 1..Len(lnks) :
                         /\ SameTriple(lnks[i], srcTable, fkey, dstTable)
                         /\ \A j \in 1..(i - 1) : ~SameTriple(lnks[j], srcTable, fkey, dstTable)
         IN  [threw |-> "none", links |-> Splice1(lnks, index)]

\* Variant of NameMatches: a column base name that is the plural of the
\* table name is not matched.
NameMatchesNoColumnPlural(columnName, dstTableName) ==
    LET possibleTableName == StripIdSuffix(columnName)
        tableBaseName == ToLowerCase(dstTableName)
        columnBaseName == ToLowerCase(possibleTableName)
    IN  \/ tableBaseName = columnBaseName
        \/ tableBaseName = columnBaseName \o <<"s">>

\* The name test of inferLinks for one column and one candidate destination.
NameMatches(columnName, dstTableName) ==
    LET possibleTableName == StripIdSuffix(columnName)
        tableBaseName == ToLowerCase(dstTableName)
        columnBaseName == ToLowerCase(possibleTableName)
    IN  \/ tableBaseName = columnBaseName
        \/ tableBaseName = columnBaseName \o <<"s">>
        \/ tableBaseName \o <<"s">> = columnBaseName

HasIdSuffix(columnName) ==
    EndsWith(columnName, <<"_", "i", "d">>) \/ EndsWith(columnName, <<"I", "d">>)

RECURSIVE Concat(_)
Concat(seqs) == IF seqs = << >> THEN << >> ELSE Head(seqs) \o Concat(Tail(seqs))

\* Variant of InferTargets: a destination is tried whether or not it has a
\* primary key.
InferTargetsNoKeyGate(tbls, srcTableName, columnName) ==
    IF ~HasIdSuffix(columnName) THEN << >>
    ELSE SelectSeq(TableNames(tbls),
                   LAMBDA dstTableName :
                      /\ dstTableName # srcTableName
                      /\ NameMatches(columnName, dstTableName))

\* Variant of InferTargets: the source table itself is a candidate destination.
InferTargetsWithSelf(tbls, srcTableName, columnName) ==
    IF ~HasIdSuffix(columnName) THEN << >>
    ELSE SelectSeq(TableNames(tbls),
                   LAMBDA dstTableName :
                      /\ NameMatches(columnName, dstTableName)
                      /\ Truthy(GetTable(tbls, dstTableName).metadata.primaryKey))

\* The destinations the innermost loop of inferLinks tries to link one
\* column to, in loop order.
InferTargets(tbls, srcTableName, columnName) ==
    IF ~HasIdSuffix(columnName) THEN << >>
    ELSE SelectSeq(TableNames(tbls),
                   LAMBDA dstTableName :
                      /\ dstTableName # srcTableName
                      /\ NameMatches(columnName, dstTableName)
                      /\ Truthy(GetTable(tbls, dstTableName).metadata.primaryKey))

\* Every this.link(srcTableName, columnName, dstTableName) call of
\* inferLinks, in the order of its three nested loops.
InferAttempts(tbls) ==
    Concat([s \in 1..Len(tbls) |->
        Concat([c \in 1..Len(Columns(tbls[s])) |->
            LET targets == InferTargets(tbls, tbls[s].name, Columns(tbls[s])[c])
            IN  [d \in 1..Len(targets) |->
                    <<tbls[s].name, Columns(tbls[s])[c], targets[d]>>]])])

\* Variant of InferLinksLoop: a link that link() refuses as a duplicate is
\* taken off the list.
RECURSIVE InferLinksLoopDropsRefused(_, _, _, _)
InferLinksLoopDropsRefused(tbls, attempts, i, st) ==
    IF i > Len(attempts) THEN st
    ELSE LET r == link(tbls, st.links, attempts[i][1], attempts[i][2], attempts[i][3])
             same(l) == /\ l.srcTable = attempts[i][1]
                        /\ l.fkey = attempts[i][2]
                        /\ l.dstTable = attempts[i][3]
         IN  InferLinksLoopDropsRefused(tbls, attempts, i + 1,
                            IF r.threw = "none"
                            THEN [links |-> r.links, linked |-> TRUE]
                            ELSE [links |-> SelectSeq(st.links, LAMBDA l : ~same(l)),
                                  linked |-> st.linked])

\* try { this.link(...) } catch {} for each attempt in turn.
\* st = [links, linked]; linked records that some link() call succeeded.
RECURSIVE InferLinksLoop(_, _, _, _)
InferLinksLoop(tbls, attempts, i, st) ==
    IF i > Len(attempts) THEN st
    ELSE LET r == link(tbls, st.links, attempts[i][1], attempts[i][2], attempts[i][3])
         IN  InferLinksLoop(tbls, attempts, i + 1,
                            IF r.threw = "none"
                            THEN [links |-> r.links, linked |-> TRUE]
                            ELSE st)

\* inferLinks(): [links, linked]
inferLinks(tbls, lnks) ==
    InferLinksLoop(tbls, InferAttempts(tbls), 1, [links |-> lnks, linked |-> FALSE])

\* hasCircularReference(): st = [visited, recursionStack, found]
RECURSIVE dfs(_, _, _)
RECURSIVE DfsLoop(_, _, _, _)
\* Variant of dfs: a finished table is never taken off the recursion stack.
dfsKeepsStack(lnks, table, st) ==
    LET st1 == [visited |-> st.visited \cup {table},
                recursionStack |-> st.recursionStack \cup {table},
                found |-> FALSE]
        outgoingLinks == SelectSeq(lnks, LAMBDA l : l.srcTable = table)
    IN  DfsLoop(lnks, outgoingLinks, 1, st1)

dfs(lnks, table, st) ==
    LET st1 == [visited |-> st.visited \cup {table},
                recursionStack |-> st.recursionStack \cup {table},
                found |-> FALSE]
        outgoingLinks == SelectSeq(lnks, LAMBDA l : l.srcTable = table)
        r == DfsLoop(lnks, outgoingLinks, 1, st1)
    IN  IF r.found THEN r
        ELSE [r EXCEPT !.recursionStack = @ \ {table}]

DfsLoop(lnks, outgoingLinks, i, st) ==
    IF i > Len(outgoingLinks) THEN st
    ELSE LET dst == outgoingLinks[i].dstTable
         IN  IF dst \notin st.visited
             THEN LET r == dfs(lnks, dst, st)
                  IN  IF r.found THEN r ELSE DfsLoop(lnks, outgoingLinks, i + 1, r)
             ELSE IF dst \in st.recursionStack
             THEN [st EXCEPT !.found = TRUE]
             ELSE DfsLoop(lnks, outgoingLinks, i + 1, st)

\* Variant of CycleLoop: the traversal starts from the first table only.
CycleLoopFirstOnly(tbls, lnks, i, st) ==
    IF Len(tbls) = 0 THEN FALSE ELSE dfs(lnks, tbls[1].name, st).found

RECURSIVE CycleLoop(_, _, _, _)
CycleLoop(tbls, lnks, i, st) ==
    IF i > Len(tbls) THEN FALSE
    ELSE IF tbls[i].name \notin st.visited
         THEN LET r == dfs(lnks, tbls[i].name, st)
              IN  IF r.found THEN TRUE ELSE CycleLoop(tbls, lnks, i + 1, r)
         ELSE CycleLoop(tbls, lnks, i + 1, st)

hasCircularReference(tbls, lnks) ==
    CycleLoop(tbls, lnks, 1, [visited |-> {}, recursionStack |-> {}, found |-> FALSE])

\* The errors and warnings validate() pushes for one link.
LinkErrors(tbls, l) ==
    IF ~Truthy(GetTable(tbls, l.dstTable).metadata.primaryKey)
    THEN << Issue("INVALID_LINK", None, Some(l.dstTable)) >>
    ELSE << >>

LinkWarnings(tbls, l) ==
    LET srcTable == GetTable(tbls, l.srcTable)
    IN  IF srcTable.schema # None
           /\ \E i \in 1..Len(srcTable.schema[1].columns) :
                 /\ srcTable.schema[1].columns[i].name = l.fkey
                 /\ srcTable.schema[1].columns[i].nullable
        THEN << Issue("NULLABLE_FOREIGN_KEY", Some(l.fkey), Some(l.srcTable)) >>
        ELSE << >>

\* Variant of validateLinks: the loop over the links records on each link
\* whether its destination has a primary key.
validateLinksMarked(tbls, lnks) ==
    [i \in 1..Len(lnks) |->
        [lnks[i] EXCEPT !.validated =
            Truthy(GetTable(tbls, lnks[i].dstTable).metadata.primaryKey)]]

\* this._links as the loop of validate() over it leaves it: each link is
\* read, none is written (the `validated` field of a link stays false).
validateLinks(tbls, lnks) == lnks

\* Variant of validate: one INVALID_LINK error per destination table without
\* a primary key, however many links point to it.
validateOnePerDestination(tbls, lnks) ==
    LET tableErrors == Concat([i \in 1..Len(tbls) |-> TableValidate(tbls[i]).errors])
        tableWarnings == Concat([i \in 1..Len(tbls) |-> TableValidate(tbls[i]).warnings])
        unkeyed == SelectSeq(TableNames(tbls),
                             LAMBDA n : /\ ~Truthy(GetTable(tbls, n).metadata.primaryKey)
                                        /\ \E i \in 1..Len(lnks) : lnks[i].dstTable = n)
        linkErrors == [i \in 1..Len(unkeyed) |-> Issue("INVALID_LINK", None, Some(unkeyed[i]))]
        linkWarnings == Concat([i \in 1..Len(lnks) |-> LinkWarnings(tbls, lnks[i])])
        cycleErrors == IF hasCircularReference(tbls, lnks)
                       THEN << Issue("CIRCULAR_REFERENCE", None, None) >>
                       ELSE << >>
        errors == tableErrors \o linkErrors \o cycleErrors
    IN  [valid |-> Len(errors) = 0,
         errors |-> errors,
         warnings |-> tableWarnings \o linkWarnings]

\* LocalGraph.validate(): [valid, errors, warnings]
\* Variant of validate: a result with warnings is not valid.
validateCountsWarnings(tbls, lnks) ==
    LET tableErrors == Concat([i \in 1..Len(tbls) |-> TableValidate(tbls[i]).errors])
        tableWarnings == Concat([i \in 1..Len(tbls) |-> TableValidate(tbls[i]).warnings])
        linkErrors == Concat([i \in 1..Len(lnks) |-> LinkErrors(tbls, lnks[i])])
        linkWarnings == Concat([i \in 1..Len(lnks) |-> LinkWarnings(tbls, lnks[i])])
        cycleErrors == IF hasCircularReference(tbls, lnks)
                       THEN << Issue("CIRCULAR_REFERENCE", None, None) >>
                       ELSE << >>
        errors == tableErrors \o linkErrors \o cycleErrors
    IN  [valid |-> Len(errors) = 0 /\ Len(tableWarnings \o linkWarnings) = 0,
         errors |-> errors,
         warnings |-> tableWarnings \o linkWarnings]

validate(tbls, lnks) ==
    LET tableErrors == Concat([i \in 1..Len(tbls) |-> TableValidate(tbls[i]).errors])
        tableWarnings == Concat([i \in 1..Len(tbls) |-> TableValidate(tbls[i]).warnings])
        linkErrors == Concat([i \in 1..Len(lnks) |-> LinkErrors(tbls, lnks[i])])
        linkWarnings == Concat([i \in 1..Len(lnks) |-> LinkWarnings(tbls, lnks[i])])
        cycleErrors == IF hasCircularReference(tbls, lnks)
                       THEN << Issue("CIRCULAR_REFERENCE", None, None) >>
                       ELSE << >>
        errors == tableErrors \o linkErrors \o cycleErrors
    IN  [valid |-> Len(errors) = 0,
         errors |-> errors,
         warnings |-> tableWarnings \o linkWarnings]

-----------------------------------------------------------------------------
(* PQLBuilder *)

Str_PREDICT_ == <<"P", "R", "E", "D", "I", "C", "T", " ">>
Str__FOR_ == <<" ", "F", "O", "R", " ">>
Str__WHERE_ == <<" ", "W", "H", "E", "R", "E", " ">>
Str__GROUP_BY_ == <<" ", "G", "R", "O", "U", "P", " ", "B", "Y", " ">>
Str__ORDER_BY_ == <<" ", "O", "R", "D", "E", "R", " ", "B", "Y", " ">>
Str__LIMIT_ == <<" ", "L", "I", "M", "I", "T", " ">>
Str_CommaSpace == <<",", " ">>
Str__AND_ == <<" ", "A", "N", "D", " ">>

\* new PQLBuilder()
NewPQLBuilder ==
    [predictTarget |-> None,
     forEntities |-> << >>,
     whereClauses |-> << >>,
     groupByFields |-> << >>,
     orderByFields |-> << >>,
     limitCount |-> None]

predict(b, target) == [b EXCEPT !.predictTarget = Some(target)]

forReplaces(b, entities) == [b EXCEPT !.forEntities = entities]

for(b, entities) == [b EXCEPT !.forEntities = @ \o entities]

where(b, condition) == [b EXCEPT !.whereClauses = Append(@, condition)]

groupBy(b, fields) == [b EXCEPT !.groupByFields = @ \o fields]

orderBy(b, fields) == [b EXCEPT !.orderByFields = @ \o fields]

limit(b, n) == [b EXCEPT !.limitCount = Some(n)]

\* Array.prototype.join
RECURSIVE Join(_, _)
Join(list, sep) ==
    IF list = << >> THEN << >>
    ELSE IF Len(list) = 1 THEN list[1]
    ELSE list[1] \o sep \o Join(Tail(list), sep)

Digit(d) ==
    CASE d = 0 -> "0" [] d = 1 -> "1" [] d = 2 -> "2" [] d = 3 -> "3" [] d = 4 -> "4"
      [] d = 5 -> "5" [] d = 6 -> "6" [] d = 7 -> "7" [] d = 8 -> "8" [] d = 9 -> "9"

\* `${n}` for an integer n
RECURSIVE NumberToString(_)
NumberToString(n) ==
    IF n < 0 THEN <<"-">> \o NumberToString(0 - n)
    ELSE IF n < 10 THEN << Digit(n) >>
    ELSE NumberToString(n \div 10) \o << Digit(n % 10) >>

\* Variant of build: the ORDER BY clause is rendered before the GROUP BY clause.
buildOrderBeforeGroup(b) ==
    IF ~Truthy(b.predictTarget)
    THEN [threw |-> "ValidationError", value |-> None]
    ELSE
      LET q0 == Str_PREDICT_ \o b.predictTarget[1]
          q1 == IF Len(b.forEntities) # 0
                THEN q0 \o Str__FOR_ \o Join(b.forEntities, Str_CommaSpace) ELSE q0
          q2 == IF Len(b.whereClauses) # 0
                THEN q1 \o Str__WHERE_ \o Join(b.whereClauses, Str__AND_) ELSE q1
          q3 == IF Len(b.orderByFields) # 0
                THEN q2 \o Str__ORDER_BY_ \o Join(b.orderByFields, Str_CommaSpace) ELSE q2
          q4 == IF Len(b.groupByFields) # 0
                THEN q3 \o Str__GROUP_BY_ \o Join(b.groupByFields, Str_CommaSpace) ELSE q3
          q5 == IF b.limitCount # None
                THEN q4 \o Str__LIMIT_ \o NumberToString(b.limitCount[1]) ELSE q4
      IN  [threw |-> "none", value |-> Some(q5)]

\* Variant of build: a builder without FOR entities is refused as well.
buildRequiresFor(b) ==
    IF ~Truthy(b.predictTarget) \/ Len(b.forEntities) = 0
    THEN [threw |-> "ValidationError", value |-> None]
    ELSE
      LET q0 == Str_PREDICT_ \o b.predictTarget[1]
          q1 == q0 \o Str__FOR_ \o Join(b.forEntities, Str_CommaSpace)
          q2 == IF Len(b.whereClauses) # 0
                THEN q1 \o Str__WHERE_ \o Join(b.whereClauses, Str__AND_) ELSE q1
          q3 == IF Len(b.groupByFields) # 0
                THEN q2 \o Str__GROUP_BY_ \o Join(b.groupByFields, Str_CommaSpace) ELSE q2
          q4 == IF Len(b.orderByFields) # 0
                THEN q3 \o Str__ORDER_BY_ \o Join(b.orderByFields, Str_CommaSpace) ELSE q3
          q5 == IF b.limitCount # None
                THEN q4 \o Str__LIMIT_ \o NumberToString(b.limitCount[1]) ELSE q4
      IN  [threw |-> "none", value |-> Some(q5)]

\* build(): [threw, value]
build(b) ==
    IF ~Truthy(b.predictTarget)
    THEN [threw |-> "ValidationError", value |-> None]
    ELSE
      LET q0 == Str_PREDICT_ \o b.predictTarget[1]
          q1 == IF Len(b.forEntities) # 0
                THEN q0 \o Str__FOR_ \o Join(b.forEntities, Str_CommaSpace) ELSE q0
          q2 == IF Len(b.whereClauses) # 0
                THEN q1 \o Str__WHERE_ \o Join(b.whereClauses, Str__AND_) ELSE q1
          q3 == IF Len(b.groupByFields) # 0
                THEN q2 \o Str__GROUP_BY_ \o Join(b.groupByFields, Str_CommaSpace) ELSE q2
          q4 == IF Len(b.orderByFields) # 0
                THEN q3 \o Str__ORDER_BY_ \o Join(b.orderByFields, Str_CommaSpace) ELSE q3
          q5 == IF b.limitCount # None
                THEN q4 \o Str__LIMIT_ \o NumberToString(b.limitCount[1]) ELSE q4
      IN  [threw |-> "none", value |-> Some(q5)]

\* String.prototype.toUpperCase, one character at a time: sharp s is the
\* character whose upper-case form is two characters long.
UpperChar(c) ==
    CASE c = "p" -> <<"P">> [] c = "r" -> <<"R">> [] c = "e" -> <<"E">> [] c = "d" -> <<"D">>
      [] c = "i" -> <<"I">> [] c = "c" -> <<"C">> [] c = "t" -> <<"T">> [] c = "f" -> <<"F">>
      [] c = "o" -> <<"O">> [] c = "x" -> <<"X">> [] c = "u" -> <<"U">> [] c = "v" -> <<"V">>
      [] c = "ß" -> <<"S", "S">>
      [] OTHER -> <<c>>

RECURSIVE toUpperCase(_)
toUpperCase(s) == IF s = << >> THEN << >> ELSE UpperChar(Head(s)) \o toUpperCase(Tail(s))

\* String.prototype.indexOf: the 0-based position of the first occurrence, -1
\* when there is none.
indexOf(s, sub) ==
    LET at == { i \in 1..(Len(s) - Len(sub) + 1) : SubSeq(s, i, i + Len(sub) - 1) = sub }
    IN  IF at = { } THEN -1 ELSE (CHOOSE i \in at : \A j \in at : i <= j) - 1

\* String.prototype.slice(from, to) with 0-based from and exclusive to.
slice(s, from, to) ==
    IF from >= to \/ from >= Len(s) THEN << >>
    ELSE SubSeq(s, from + 1, IF to > Len(s) THEN Len(s) ELSE to)

RECURSIVE trimStart(_)
trimStart(s) == IF s # << >> /\ Head(s) = " " THEN trimStart(Tail(s)) ELSE s

RECURSIVE trimEnd(_)
trimEnd(s) ==
    IF s # << >> /\ s[Len(s)] = " " THEN trimEnd(SubSeq(s, 1, Len(s) - 1)) ELSE s

\* String.prototype.trim
trim(s) == trimEnd(trimStart(s))

\* Variant of parse: the text after FOR is restored as the FOR entity.
parseRestoresFor(query) ==
    LET upper == toUpperCase(query)
        predictIdx == indexOf(upper, Str_PREDICT_)
    IN  IF predictIdx > -1
        THEN LET afterPredict == trim(slice(query, predictIdx + 8, Len(query)))
                 forIdx == indexOf(toUpperCase(afterPredict), Str__FOR_)
             IN  IF forIdx >= 0
                 THEN for(predict(NewPQLBuilder, trim(slice(afterPredict, 0, forIdx))),
                          << trim(slice(afterPredict, forIdx + 5, Len(afterPredict))) >>)
                 ELSE predict(NewPQLBuilder, trim(afterPredict))
        ELSE NewPQLBuilder

\* PQLBuilder.parse(query): the builder it returns
parse(query) ==
    LET upper == toUpperCase(query)
        predictIdx == indexOf(upper, Str_PREDICT_)
    IN  IF predictIdx > -1
        THEN LET afterPredict == trim(slice(query, predictIdx + 8, Len(query)))
                 forIdx == indexOf(toUpperCase(afterPredict), Str__FOR_)
                 target == IF forIdx >= 0 THEN trim(slice(afterPredict, 0, forIdx))
                           ELSE trim(afterPredict)
             IN  predict(NewPQLBuilder, target)
        ELSE NewPQLBuilder

-----------------------------------------------------------------------------
(* Inputs *)

\* The graph scenario: tables a, bs and C whose foreign-key columns name
\* each other under the three plural rules of inferLinks.
RowA == << <<Str_id, VNum(1)>>, <<Str_b_id, VNum(1)>> >>
RowBs == << <<Str_id, VNum(1)>>, <<Str_cId, VNull>> >>
RowC == << <<Str_as_id, VNum(1)>> >>

\* Metadata declared through the constructor for a table built without rows.
DeclaredC ==
    [primaryKey |-> Some(Str_as_id),
     timeColumn |-> None,
     columns |-> Some(<< [name |-> Str_as_id, type |-> "numerical", nullable |-> FALSE,
                          primaryKey |-> TRUE, uniqueValues |-> 0, nullCount |-> 0] >>)]

GraphTableLists ==
    { << NewLocalTable(<<RowA>>, Str_a, NoMetadata),
         NewLocalTable(<<RowBs>>, Str_bs, NoMetadata),
         NewLocalTable(<<RowC>>, Str_C, NoMetadata) >>,
      << NewLocalTable(<<RowA>>, Str_a, NoMetadata),
         NewLocalTable(<<RowBs>>, Str_bs, NoMetadata),
         NewLocalTable(<< >>, Str_C, DeclaredC) >> }

\* <<srcTable, fkey, dstTable>> arguments of link and unlink: the three-table
\* cycle, a two-table cycle that leaves out the first table, a self link, a
\* second key between the same two tables, and arguments link refuses.
LinkInputs ==
    { <<Str_a, Str_b_id, Str_bs>>,
      <<Str_bs, Str_cId, Str_C>>,
      <<Str_C, Str_as_id, Str_a>>,
      <<Str_C, Str_as_id, Str_bs>>,
      <<Str_a, Str_id, Str_a>>,
      <<Str_a, Str_id, Str_bs>>,
      <<Str_zz, Str_id, Str_a>>,
      <<Str_a, Str_id, Str_zz>>,
      <<Str_a, Str_nope, Str_bs>>,
      <<Str_bs, Str_b_id, Str_a>> }

\* The store scenario: the tables of the from_data test and of the naming
\* examples, with a table `user` next to `users` so that one column names two
\* destinations, and a table `order` whose only column names none.
UsersRows == << << <<Str_user_id, VNum(1)>> >>, << <<Str_user_id, VNum(2)>> >> >>

OrdersRows ==
    << << <<Str_order_id, VNum(1)>>, <<Str_user_id, VNum(1)>>, <<Str_amount, VNum(10)>> >>,
       << <<Str_order_id, VNum(2)>>, <<Str_user_id, VNum(2)>>, <<Str_amount, VNum(20)>> >> >>

OrderRows == << << <<Str_order_user_id, VNum(1)>> >> >>

UserRows == << << <<Str_id, VNum(1)>> >> >>

StoreTableLists ==
    { << NewLocalTable(UsersRows, Str_users, NoMetadata),
         NewLocalTable(OrdersRows, Str_orders, NoMetadata) >>,
      << NewLocalTable(UsersRows, Str_users, NoMetadata),
         NewLocalTable(OrderRows, Str_order, NoMetadata) >>,
      << NewLocalTable(UsersRows, Str_users, NoMetadata),
         NewLocalTable(UserRows, Str_user, NoMetadata),
         NewLocalTable(OrdersRows, Str_orders, NoMetadata) >> }

\* <<srcTable, fkey, dstTable>> arguments of unlink in the store and cycle
\* scenarios: the links inference can make, and one it never makes.
StoreUnlinkInputs ==
    { <<Str_orders, Str_user_id, Str_users>>,
      <<Str_orders, Str_user_id, Str_user>>,
      <<Str_users, Str_user_id, Str_user>>,
      <<Str_users, Str_user_id, Str_orders>>,
      <<Str_a, Str_b_id, Str_bs>>,
      <<Str_bs, Str_cId, Str_C>>,
      <<Str_C, Str_as_id, Str_a>> }

\* The validity flag scenario: two links that can be made, one that link
\* refuses, and the columns handed to the setters of the first table.
FlagLinkInputs ==
    { <<Str_a, Str_b_id, Str_bs>>, <<Str_bs, Str_cId, Str_C>>, <<Str_a, Str_nope, Str_bs>> }

FlagColumnInputs == {Str_id, Str_nope}

\* The builder scenario: the arguments of the fluent calls.  The empty
\* target is what parse() hands to predict() for the query "PREDICT ".
PredictInputs == { << >>, <<"x">> }

ForInputs == { << >>, << <<"u">> >>, << <<"u">>, <<"i">> >> }

WhereInputs == { <<"v">>, <<"w">> }

GroupByInputs == { << <<"g">> >> }

OrderByInputs == { << <<"o">> >> }

LimitInputs == { 0, 10 }

\* The table scenario: one table whose row array the caller keeps mutating.
RowPool ==
    { << <<Str_id, VNum(1)>>, <<Str_at, VDate(1)>> >>,
      << <<Str_id, VNum(1)>>, <<Str_at, VDate(2)>> >>,
      << <<Str_at, VDate(1)>>, <<Str_id, VNull>> >>,
      << <<Str_id, VText(1)>>, <<Str_at, VText(2)>> >> }

RECURSIVE SeqsUpTo(_, _)
SeqsUpTo(S, n) ==
    IF n = 0 THEN { << >> }
    ELSE LET shorter == SeqsUpTo(S, n - 1)
         IN  shorter \cup { Append(q, x) : q \in shorter, x \in S }

DataInputs == SeqsUpTo(RowPool, MaxRows)

\* The parse scenario: query strings put together from fragments, among them
\* the keywords in both cases, blanks, a query with every clause that parse
\* looks at, and a character whose upper-case form is longer than itself.
QueryTokens ==
    { Str_PREDICT_, <<"p", "r", "e", "d", "i", "c", "t", " ">>, <<"x">>, <<" ">>,
      Str__FOR_, <<" ", "f", "o", "r", " ">>, <<"u">>,
      <<"u">> \o Str__WHERE_ \o <<"v">>, <<"ß">> }

QueryInputs == { Concat(ts) : ts \in SeqsUpTo(QueryTokens, MaxTokens) }

\* The type inference scenario: columns of nulls, numbers, numeric strings,
\* ISO date strings and other strings.
CellInputs ==
    { VNull, VNum(1), VNumStr(1), VNumStr(2), VDate(1), VDate(2), VText(1), VText(2) }

ColumnInputs == SeqsUpTo(CellInputs, MaxValues)

DeclaredT == [primaryKey |-> Some(Str_at), timeColumn |-> Some(Str_id), columns |-> None]

TableColumnInputs == {Str_id, Str_at, Str_nope}

-----------------------------------------------------------------------------
(* Calls *)

\* args: the <<srcTable, fkey, dstTable>> of a link or unlink call that succeeded.
Outcome(op, threw, msg, value) ==
    [op |-> op, threw |-> threw, msg |-> msg, value |-> value, args |-> None]

Succeeded(op, args) ==
    [op |-> op, threw |-> "none", msg |-> "", value |-> None, args |-> Some(args)]

InitGraph ==
    /\ \E list \in GraphTableLists : tables = NewTableMap(list, << >>)
    /\ links = << >>
    /\ validated = FALSE
    /\ lenientDates \in BOOLEAN
    /\ builder = NewPQLBuilder
    /\ called = {}
    /\ result = Outcome("new", "none", "", None)

InitTable ==
    /\ \E data \in DataInputs, metadata \in {NoMetadata, DeclaredT} :
          tables = NewTableMap(<< NewLocalTable(data, Str_t, metadata) >>, << >>)
    /\ links = << >>
    /\ validated = FALSE
    /\ lenientDates \in BOOLEAN
    /\ builder = NewPQLBuilder
    /\ called = {}
    /\ result = Outcome("new", "none", "", None)

InitStore ==
    /\ \E list \in StoreTableLists \cup GraphTableLists : tables = NewTableMap(list, << >>)
    /\ links = << >>
    /\ validated = FALSE
    /\ lenientDates \in BOOLEAN
    /\ builder = NewPQLBuilder
    /\ called = {}
    /\ result = Outcome("new", "none", "", None)

InitBuilder ==
    /\ tables = << >>
    /\ links = << >>
    /\ validated = FALSE
    /\ lenientDates = FALSE
    /\ builder = NewPQLBuilder
    /\ called = {}
    /\ result = Outcome("new", "none", "", None)

\* Variant of Link: the cached validity flag is cleared before the checks, so
\* that a call that raises clears it too.
LinkAlwaysResets(srcTable, fkey, dstTable) ==
    LET r == link(tables, links, srcTable, fkey, dstTable)
    IN  /\ Len(r.links) <= MaxLinks
        /\ links' = r.links
        /\ validated' = FALSE
        /\ result' = IF r.threw = "none"
                     THEN Succeeded("link", <<srcTable, fkey, dstTable>>)
                     ELSE Outcome("link", r.threw, r.msg, None)
        /\ UNCHANGED <<tables, lenientDates>>
        /\ UNCHANGED <<builder, called>>

Link(srcTable, fkey, dstTable) ==
    LET r == link(tables, links, srcTable, fkey, dstTable)
    IN  /\ Len(r.links) <= MaxLinks
        /\ links' = r.links
        /\ validated' = IF r.threw = "none" THEN FALSE ELSE validated
        /\ result' = IF r.threw = "none"
                     THEN Succeeded("link", <<srcTable, fkey, dstTable>>)
                     ELSE Outcome("link", r.threw, r.msg, None)
        /\ UNCHANGED <<tables, lenientDates>>
        /\ UNCHANGED <<builder, called>>

Unlink(srcTable, fkey, dstTable) ==
    LET r == unlink(links, srcTable, fkey, dstTable)
    IN  /\ links' = r.links
        /\ validated' = IF r.threw = "none" THEN FALSE ELSE validated
        /\ result' = IF r.threw = "none"
                     THEN Succeeded("unlink", <<srcTable, fkey, dstTable>>)
                     ELSE Outcome("unlink", r.threw, "", None)
        /\ UNCHANGED <<tables, lenientDates>>
        /\ UNCHANGED <<builder, called>>

InferLinks ==
    LET r == inferLinks(tables, links)
    IN  /\ Len(r.links) <= MaxLinks
        /\ links' = r.links
        /\ validated' = IF r.linked THEN FALSE ELSE validated
        /\ result' = Outcome("inferLinks", "none", "", None)
        /\ UNCHANGED <<tables, lenientDates>>
        /\ UNCHANGED <<builder, called>>

Validate ==
    LET r == validate(tables, links)
    IN  /\ validated' = r.valid
        /\ result' = Outcome("validate", "none", "", Some(r))
        /\ links' = validateLinks(tables, links)
        /\ UNCHANGED <<tables, lenientDates>>
        /\ UNCHANGED <<builder, called>>

InferMetadata(i) ==
    LET r == inferMetadata(tables[i], lenientDates)
    IN  /\ tables' = [tables EXCEPT ![i] = r.table]
        /\ result' = Outcome("inferMetadata", r.threw, "", None)
        /\ UNCHANGED <<links, validated, lenientDates>>
        /\ UNCHANGED <<builder, called>>

SetPrimaryKey(i, columnName) ==
    LET r == setPrimaryKey(tables[i], columnName)
    IN  /\ tables' = [tables EXCEPT ![i] = r.table]
        /\ result' = Outcome("setPrimaryKey", r.threw, "", None)
        /\ UNCHANGED <<links, validated, lenientDates>>
        /\ UNCHANGED <<builder, called>>

SetTimeColumn(i, columnName) ==
    LET r == setTimeColumn(tables[i], columnName)
    IN  /\ tables' = [tables EXCEPT ![i] = r.table]
        /\ result' = Outcome("setTimeColumn", r.threw, "", None)
        /\ UNCHANGED <<links, validated, lenientDates>>
        /\ UNCHANGED <<builder, called>>

ValidateTable(i) ==
    /\ result' = Outcome("validateTable", "none", "", Some(TableValidate(tables[i])))
    /\ UNCHANGED <<tables, links, validated, lenientDates>>
    /\ UNCHANGED <<builder, called>>

\* The caller changes the row array it handed to the constructor (the table
\* keeps the reference and hands it out again through `data`): data.push(row)
PushRow(i, row) ==
    /\ Len(tables[i].data) < MaxRows
    /\ tables' = [tables EXCEPT ![i].data = Append(@, row)]
    /\ result' = Outcome("push", "none", "", None)
    /\ UNCHANGED <<links, validated, lenientDates>>
    /\ UNCHANGED <<builder, called>>

\* data.pop()
PopRow(i) ==
    /\ Len(tables[i].data) > 0
    /\ tables' = [tables EXCEPT ![i].data = SubSeq(@, 1, Len(@) - 1)]
    /\ result' = Outcome("pop", "none", "", None)
    /\ UNCHANGED <<links, validated, lenientDates>>
    /\ UNCHANGED <<builder, called>>

Predict(target) ==
    /\ builder' = predict(builder, target)
    /\ called' = called \cup {"predict"}
    /\ result' = Outcome("predict", "none", "", None)
    /\ UNCHANGED <<tables, links, validated, lenientDates>>

For(entities) ==
    /\ Len(builder.forEntities) + Len(entities) <= MaxFields
    /\ builder' = for(builder, entities)
    /\ called' = called \cup {"for"}
    /\ result' = Outcome("for", "none", "", None)
    /\ UNCHANGED <<tables, links, validated, lenientDates>>

Where(condition) ==
    /\ Len(builder.whereClauses) < MaxFields
    /\ builder' = where(builder, condition)
    /\ called' = called \cup {"where"}
    /\ result' = Outcome("where", "none", "", None)
    /\ UNCHANGED <<tables, links, validated, lenientDates>>

GroupBy(fields) ==
    /\ Len(builder.groupByFields) + Len(fields) <= MaxFields
    /\ builder' = groupBy(builder, fields)
    /\ called' = called \cup {"groupBy"}
    /\ result' = Outcome("groupBy", "none", "", None)
    /\ UNCHANGED <<tables, links, validated, lenientDates>>

OrderBy(fields) ==
    /\ Len(builder.orderByFields) + Len(fields) <= MaxFields
    /\ builder' = orderBy(builder, fields)
    /\ called' = called \cup {"orderBy"}
    /\ result' = Outcome("orderBy", "none", "", None)
    /\ UNCHANGED <<tables, links, validated, lenientDates>>

Limit(n) ==
    /\ builder' = limit(builder, n)
    /\ called' = called \cup {"limit"}
    /\ result' = Outcome("limit", "none", "", None)
    /\ UNCHANGED <<tables, links, validated, lenientDates>>

Build ==
    LET r == build(builder)
    IN  /\ result' = Outcome("build", r.threw, "", r.value)
        /\ UNCHANGED <<tables, links, validated, lenientDates, builder, called>>

\* DataFrameUtils.inferColumnType(values) is static and keeps no state.
InferColumnType(values) ==
    /\ result' = [op |-> "inferColumnType", threw |-> "none", msg |-> "",
                  value |-> Some(inferColumnType(values, lenientDates)),
                  args |-> Some(values)]
    /\ UNCHANGED <<tables, links, validated, lenientDates, builder, called>>

\* PQLBuilder.parse(query) is static: it starts from a new builder.
Parse(query) ==
    /\ builder' = parse(query)
    /\ called' = IF parse(query).predictTarget # None THEN {"predict"} ELSE { }
    /\ result' = Succeeded("parse", query)
    /\ UNCHANGED <<tables, links, validated, lenientDates>>

Next ==
    \/ \E a \in LinkInputs : Link(a[1], a[2], a[3])
    \/ \E a \in LinkInputs : Unlink(a[1], a[2], a[3])
    \/ InferLinks
    \/ Validate
    \/ \E i \in 1..Len(tables) : InferMetadata(i)

Spec == InitGraph /\ [][Next]_vars

NextTable ==
    \/ InferMetadata(1)
    \/ \E c \in TableColumnInputs : SetPrimaryKey(1, c)
    \/ \E c \in TableColumnInputs : SetTimeColumn(1, c)
    \/ ValidateTable(1)
    \/ \E row \in RowPool : PushRow(1, row)
    \/ PopRow(1)

SpecTable == InitTable /\ [][NextTable]_vars

\* A graph whose tables keep being changed behind its back.
NextFlag ==
    \/ \E a \in FlagLinkInputs : Link(a[1], a[2], a[3])
    \/ \E a \in FlagLinkInputs : Unlink(a[1], a[2], a[3])
    \/ InferLinks
    \/ Validate
    \/ \E i \in 1..Len(tables) : InferMetadata(i)
    \/ \E c \in FlagColumnInputs : SetPrimaryKey(1, c)
    \/ \E c \in FlagColumnInputs : SetTimeColumn(1, c)

SpecFlag == InitGraph /\ [][NextFlag]_vars

\* The inference pipeline of from_data, its steps taken in any order.
NextStore ==
    \/ \E i \in 1..Len(tables) : InferMetadata(i)
    \/ InferLinks
    \/ \E a \in StoreUnlinkInputs : Unlink(a[1], a[2], a[3])
    \/ Validate
    \/ \E i \in 1..Len(tables) : ValidateTable(i)

SpecStore == InitStore /\ [][NextStore]_vars

NextBuilder ==
    \/ \E target \in PredictInputs : Predict(target)
    \/ \E entities \in ForInputs : For(entities)
    \/ \E condition \in WhereInputs : Where(condition)
    \/ \E fields \in GroupByInputs : GroupBy(fields)
    \/ \E fields \in OrderByInputs : OrderBy(fields)
    \/ \E n \in LimitInputs : Limit(n)
    \/ Build

SpecBuilder == InitBuilder /\ [][NextBuilder]_vars

\* One query is parsed, and build() is called on what parse returned.
NextParse ==
    \/ result.op = "new" /\ \E query \in QueryInputs : Parse(query)
    \/ Build

SpecParse == InitBuilder /\ [][NextParse]_vars

InitInfer ==
    /\ tables = << >>
    /\ links = << >>
    /\ validated = FALSE
    /\ lenientDates \in BOOLEAN
    /\ builder = NewPQLBuilder
    /\ called = {}
    /\ result = Outcome("new", "none", "", None)

\* The type of one column is inferred on one engine.
NextInfer == result.op = "new" /\ \E values \in ColumnInputs : InferColumnType(values)

SpecInfer == InitInfer /\ [][NextInfer]_vars

-----------------------------------------------------------------------------
(* Definitions the properties are stated with *)

HasValue(opt) == opt # None

Triple(l) == <<l.srcTable, l.fkey, l.dstTable>>

Edges(lnks) == { <<lnks[i].srcTable, lnks[i].dstTable>> : i \in 1..Len(lnks) }

\* The tables reachable from those of S along one or more edges of E.
RECURSIVE ReachedFrom(_, _)
ReachedFrom(E, S) ==
    LET S1 == S \cup { e[2] : e \in { e \in E : e[1] \in S } }
    IN  IF S1 = S THEN S ELSE ReachedFrom(E, S1)

Successors(E, n) == { e[2] : e \in { e \in E : e[1] = n } }

OnCycle(E, n) == n \in ReachedFrom(E, Successors(E, n))

HasDirectedCycle(E) == \E e \in E : OnCycle(E, e[1])

ErrorsOfType(r, type) == SelectSeq(r.errors, LAMBDA e : e.type = type)

AllKeyed == \A i \in 1..Len(tables) : HasValue(tables[i].metadata.primaryKey)

ThreeCycle == { <<Str_a, Str_bs>>, <<Str_bs, Str_C>>, <<Str_C, Str_a>> }

-----------------------------------------------------------------------------
(* Properties *)

\* C1: validate() reports CIRCULAR_REFERENCE exactly when the (srcTable ->
\* dstTable) pairs of the current links contain a directed cycle, a self link
\* included, wherever the cycle lies; and it reports it at most once.
C1_CycleReportedIffCycle ==
    result.op = "validate" =>
        LET n == Len(ErrorsOfType(result.value[1], "CIRCULAR_REFERENCE"))
        IN  /\ n <= 1
            /\ n = 1 <=> HasDirectedCycle(Edges(links))

\* validate() has reported a cycle that cannot be reached from the first table.
C1_Witness ==
    /\ result.op = "validate"
    /\ Len(ErrorsOfType(result.value[1], "CIRCULAR_REFERENCE")) = 1
    /\ LET E == Edges(links)
           fromFirst == ReachedFrom(E, {tables[1].name}) \cup {tables[1].name}
       IN  \A n \in fromFirst : ~OnCycle(E, n)

\* Every table is keyed and the links are exactly a -> bs -> C -> a.
C2_CycleState == AllKeyed /\ Len(links) = 3 /\ Edges(links) = ThreeCycle

\* Every table is keyed and the links are two of the three links of the cycle.
C2_BrokenCycleState ==
    AllKeyed /\ Len(links) = 2 /\ Edges(links) \subseteq ThreeCycle /\ Cardinality(Edges(links)) = 2

\* C2: with every table keyed and the links a -> bs -> C -> a, validate()
\* returns valid = false with CIRCULAR_REFERENCE; unlink of any one of the
\* three links leaves two links of the cycle, on which validate() returns
\* valid = true with no errors.
C2_CycleThenUnlinkValid ==
    /\ [](result.op = "validate" /\ C2_CycleState =>
             /\ ~result.value[1].valid
             /\ Len(ErrorsOfType(result.value[1], "CIRCULAR_REFERENCE")) = 1)
    /\ [](result.op = "validate" /\ C2_BrokenCycleState =>
             /\ result.value[1].valid
             /\ result.value[1].errors = << >>)
    /\ [][C2_CycleState /\ result'.op = "unlink" /\ result'.threw = "none" =>
             /\ C2_BrokenCycleState'
             /\ validate(tables', links').valid
             /\ validate(tables', links').errors = << >>]_vars

\* One link of the full three-table cycle has just been removed.
C2_Witness ==
    /\ result.op = "unlink" /\ result.threw = "none"
    /\ C2_BrokenCycleState
    /\ LET removed == <<result.args[1][1], result.args[1][3]>>
       IN  removed \notin Edges(links) /\ Edges(links) \cup {removed} = ThreeCycle

\* C3: no two entries of the link list have the same (srcTable, fkey,
\* dstTable), after any calls, raising ones included.
C3_NoDuplicateTriples ==
    \A i, j \in 1..Len(links) : i < j => Triple(links[i]) # Triple(links[j])

\* A link call has just been refused as a duplicate in a graph of several links.
C3_Witness ==
    /\ result.op = "link" /\ result.msg = "link already exists"
    /\ Len(links) >= 2

\* C4: link with the triple of an existing link raises ValidationError and
\* leaves the link list as it was, with exactly one link of that triple.
C4_DuplicateLinkRefused ==
    [][result'.op = "link" =>
          \A a \in LinkInputs :
             (\E i \in 1..Len(links) : Triple(links[i]) = a) /\ Link(a[1], a[2], a[3]) =>
                 /\ result'.threw = "ValidationError"
                 /\ links' = links
                 /\ Cardinality({ i \in 1..Len(links') : Triple(links'[i]) = a }) = 1]_vars

\* The second link call with the graph's only triple has raised.
C4_Witness ==
    /\ result.op = "link" /\ result.threw = "ValidationError"
    /\ result.msg = "link already exists"
    /\ Len(links) = 1

TableNameSet == { tables[i].name : i \in 1..Len(tables) }

\* C5: link raises ValidationError and adds nothing when srcTable or
\* dstTable is no table of the graph; so the ends of every link are tables
\* of the graph.
C5_LinkEndsAreTables ==
    /\ [](\A i \in 1..Len(links) :
             links[i].srcTable \in TableNameSet /\ links[i].dstTable \in TableNameSet)
    /\ [][result'.op = "link" =>
             \A a \in LinkInputs :
                (a[1] \notin TableNameSet \/ a[3] \notin TableNameSet) /\ Link(a[1], a[2], a[3]) =>
                    result'.threw = "ValidationError" /\ links' = links]_vars

\* A link call naming an unknown destination has raised.
C5_Witness ==
    /\ result.op = "link" /\ result.threw = "ValidationError"
    /\ result.msg = "destination table not found"

\* C7: unlink raises ValidationError and leaves the list alone when no link
\* has the triple; otherwise it takes out that one link and keeps the others
\* in their order.
C7_UnlinkRemovesOne ==
    [][result'.op = "unlink" =>
          \A a \in LinkInputs :
             Unlink(a[1], a[2], a[3]) =>
                 IF \A i \in 1..Len(links) : Triple(links[i]) # a
                 THEN result'.threw = "ValidationError" /\ links' = links
                 ELSE /\ result'.threw = "none"
                      /\ \E i \in 1..Len(links) :
                            /\ Triple(links[i]) = a
                            /\ links' = [j \in 1..(Len(links) - 1) |->
                                            IF j < i THEN links[j] ELSE links[j + 1]]]_vars

\* A link has just been removed from a list that keeps two other links.
C7_Witness ==
    /\ result.op = "unlink" /\ result.threw = "none"
    /\ Len(links) >= 2
    /\ \A i \in 1..Len(links) : Triple(links[i]) # result.args[1]

\* The column names the claim C6 reads for a table: those of its declared or
\* inferred column metadata when it has any, the keys of its first row otherwise.
MetadataFirstColumnNames(t) ==
    IF t.metadata.columns # None
    THEN { t.metadata.columns[1][i].name : i \in 1..Len(t.metadata.columns[1]) }
    ELSE IF t.data = << >> THEN {} ELSE { t.data[1][i][1] : i \in 1..Len(t.data[1]) }

FirstRowKeys(t) ==
    IF t.data = << >> THEN {} ELSE { t.data[1][i][1] : i \in 1..Len(t.data[1]) }

\* C6 as claimed: with both tables known, link raises for the foreign key
\* exactly when fkey is not among the source table's metadata column names,
\* or, the table having no column metadata, among its raw row keys.
C6_AsClaimed ==
    [][result'.op = "link" =>
          \A a \in LinkInputs :
             a[1] \in TableNameSet /\ a[3] \in TableNameSet /\ Link(a[1], a[2], a[3]) =>
                 (result'.msg = "foreign key not found"
                    <=> a[2] \notin MetadataFirstColumnNames(GetTable(tables, a[1])))]_vars

\* C6 (amended): with both tables known, link raises for the foreign key
\* exactly when fkey is not a key of the source table's first row, whatever
\* column metadata the table has; a table without rows has no columns.
C6_ForeignKeyAmongFirstRowKeys ==
    [][result'.op = "link" =>
          \A a \in LinkInputs :
             a[1] \in TableNameSet /\ a[3] \in TableNameSet /\ Link(a[1], a[2], a[3]) =>
                 /\ result'.msg = "foreign key not found"
                       <=> a[2] \notin FirstRowKeys(GetTable(tables, a[1]))
                 /\ result'.msg = "foreign key not found" =>
                       result'.threw = "ValidationError" /\ links' = links]_vars

\* A link call has raised for its foreign key in a graph where the table C
\* declares the column as_id but has no rows, so that linking C on as_id raises.
C6_Witness ==
    /\ result.op = "link" /\ result.msg = "foreign key not found"
    /\ LET t == GetTable(tables, Str_C)
       IN  /\ t.data = << >>
           /\ Str_as_id \in MetadataFirstColumnNames(t)
           /\ link(tables, links, Str_C, Str_as_id, Str_a).msg = "foreign key not found"

\* The columns of the first row that hold no null and as many distinct
\* values as the table has rows, in the key order of the first row.
Qualifies(data, c) ==
    /\ \A r \in 1..Len(data) : RowGet(data[r], c).k \notin {"null", "undefined"}
    /\ Cardinality({ RowGet(data[r], c) : r \in 1..Len(data) }) = Len(data)

QualifyingColumns(data) ==
    SelectSeq(RowKeys(data[1]), LAMBDA c : Qualifies(data, c))

\* C8: inferMetadata() on a table without rows raises DataError and leaves
\* the table's metadata and schema as they were.
C8_EmptyTableInferenceRaises ==
    [][result'.op = "inferMetadata" =>
          \A i \in 1..Len(tables) :
             Len(tables[i].data) = 0 /\ InferMetadata(i) =>
                 /\ result'.threw = "DataError"
                 /\ tables'[i].metadata = tables[i].metadata
                 /\ tables'[i].schema = tables[i].schema]_vars

\* Inference has raised on a table that lost its rows after an earlier inference.
C8_Witness ==
    /\ result.op = "inferMetadata" /\ result.threw = "DataError"
    /\ tables[1].data = << >>
    /\ tables[1].schema # None

\* C9: inference on a table without a primary key sets it to the first
\* qualifying column in the key order of the first row, or leaves it unset
\* when none qualifies; every qualifying column is flagged a key candidate.
C9_FirstQualifyingColumnIsKey ==
    [][result'.op = "inferMetadata" /\ result'.threw = "none" =>
          \A i \in 1..Len(tables) :
             ~HasValue(tables[i].metadata.primaryKey) /\ InferMetadata(i) =>
                 LET q == QualifyingColumns(tables[i].data)
                     cols == tables'[i].metadata.columns[1]
                 IN  /\ tables'[i].metadata.primaryKey = IF q = << >> THEN None ELSE Some(q[1])
                     /\ \A k \in 1..Len(q) :
                           \E m \in 1..Len(cols) : cols[m].name = q[k] /\ cols[m].primaryKey]_vars

\* Inference has run on rows with two qualifying columns: the key is the
\* first of them and both are flagged.
C9_Witness ==
    /\ result.op = "inferMetadata" /\ result.threw = "none"
    /\ LET q == QualifyingColumns(tables[1].data)
           cols == tables[1].metadata.columns[1]
       IN  /\ Len(q) = 2
           /\ tables[1].metadata.primaryKey = Some(q[1])
           /\ \A m \in 1..Len(cols) : cols[m].primaryKey

\* C10: inferMetadata() leaves a primaryKey and a timeColumn that already
\* have a value as they are, whatever the rows now hold.
C10_SetFieldsSurviveInference ==
    [][result'.op = "inferMetadata" =>
          \A i \in 1..Len(tables) :
             InferMetadata(i) =>
                 /\ HasValue(tables[i].metadata.primaryKey) =>
                       tables'[i].metadata.primaryKey = tables[i].metadata.primaryKey
                 /\ HasValue(tables[i].metadata.timeColumn) =>
                       tables'[i].metadata.timeColumn = tables[i].metadata.timeColumn]_vars

\* Inference has run and the table keeps a primary key and a time column
\* that inference from the present rows alone would not have chosen.
C10_Witness ==
    /\ result.op = "inferMetadata" /\ result.threw = "none"
    /\ LET q == QualifyingColumns(tables[1].data)
           fresh == inferMetadata(NewLocalTable(tables[1].data, tables[1].name, NoMetadata),
                                  lenientDates).table.metadata
       IN  /\ HasValue(tables[1].metadata.primaryKey)
           /\ HasValue(tables[1].metadata.timeColumn)
           /\ tables[1].metadata.primaryKey # fresh.primaryKey
           /\ tables[1].metadata.timeColumn # fresh.timeColumn


\* C11: a second inferMetadata() on rows that did not change since the first
\* leaves semanticTypes, primaryKey and timeColumn as the first call left
\* them, whatever metadata the table had before the first call.
C11_SecondInferenceChangesNothing ==
    result.op = "inferMetadata" /\ result.threw = "none" =>
        LET second == inferMetadata(tables[1], lenientDates)
        IN  /\ second.threw = "none"
            /\ second.table.metadata.semanticTypes = tables[1].metadata.semanticTypes
            /\ second.table.metadata.primaryKey = tables[1].metadata.primaryKey
            /\ second.table.metadata.timeColumn = tables[1].metadata.timeColumn

\* Inference has run on two rows of a table whose key and time column were
\* declared otherwise than the rows suggest, and typed both columns.
C11_Witness ==
    /\ result.op = "inferMetadata" /\ result.threw = "none"
    /\ Len(tables[1].data) >= 2
    /\ Len(tables[1].metadata.semanticTypes) = 2
    /\ tables[1].metadata.primaryKey = Some(Str_at)
    /\ tables[1].metadata.timeColumn = Some(Str_id)
    /\ inferMetadata(tables[1], lenientDates).table = tables[1]


\* C12: in every state of the table, setPrimaryKey(c) and setTimeColumn(c)
\* raise ValidationError and leave the table as it is when c is not a column
\* of the table; when it is, they set primaryKey (timeColumn) to c whatever
\* the field holds.
C12_SettersCheckColumnThenOverwrite ==
    \A c \in TableColumnInputs :
       LET pk == setPrimaryKey(tables[1], c)
           tc == setTimeColumn(tables[1], c)
       IN  IF c \in FirstRowKeys(tables[1])
           THEN /\ pk.threw = "none"
                /\ pk.table.metadata.primaryKey = Some(c)
                /\ tc.threw = "none"
                /\ tc.table.metadata.timeColumn = Some(c)
           ELSE /\ pk.threw = "ValidationError"
                /\ pk.table = tables[1]
                /\ tc.threw = "ValidationError"
                /\ tc.table = tables[1]

\* setPrimaryKey has succeeded on an inferred table, and the key it set is
\* not the one inference picks from the rows.
C12_Witness ==
    /\ result.op = "setPrimaryKey" /\ result.threw = "none"
    /\ tables[1].metadata.columns # None
    /\ tables[1].data # << >>
    /\ HasValue(tables[1].metadata.primaryKey)
    /\ LET q == QualifyingColumns(tables[1].data)
       IN  q # << >> /\ tables[1].metadata.primaryKey # Some(q[1])


\* C13: LocalTable.validate() returns one MISSING_PRIMARY_KEY error and
\* valid = false exactly when primaryKey is unset at the call, inferred table
\* or not; with a primary key set it returns valid = true and no errors.
C13_MissingKeyIffUnset ==
    result.op = "validateTable" =>
        LET r == result.value[1]
        IN  IF HasValue(tables[1].metadata.primaryKey)
            THEN r.valid /\ r.errors = << >>
            ELSE /\ ~r.valid
                 /\ Len(r.errors) = 1
                 /\ r.errors[1].type = "MISSING_PRIMARY_KEY"

\* validate() has reported the missing key of a table that holds rows and on
\* which inference never ran.
C13_Witness ==
    /\ result.op = "validateTable"
    /\ tables[1].metadata.columns = None
    /\ tables[1].data # << >>
    /\ Len(ErrorsOfType(result.value[1], "MISSING_PRIMARY_KEY")) = 1
    /\ ~result.value[1].valid


\* C14: LocalTable.validate() leaves the table's metadata (primaryKey,
\* timeColumn, semanticTypes, columns) as it was, and LocalGraph.validate()
\* leaves every table's metadata and the link list as they were.
C14_ValidateWritesNoMetadataNoLinks ==
    [][result'.op \in {"validate", "validateTable"} =>
          /\ \A i \in 1..Len(tables) : ValidateTable(i) => tables' = tables /\ links' = links
          /\ Validate =>
                /\ Len(tables') = Len(tables)
                /\ \A i \in 1..Len(tables) : tables'[i].metadata = tables[i].metadata
                /\ links' = links]_vars

\* validate() has run on a graph of inferred tables and several links and
\* has found something to report.
C14_Witness ==
    /\ result.op = "validate"
    /\ Len(links) >= 2
    /\ \E i \in 1..Len(tables) : tables[i].metadata.columns # None
    /\ result.value[1].errors # << >>
    /\ result.value[1].warnings # << >>


\* The positions of the links whose destination is the table named n.
LinksInto(n) == { i \in 1..Len(links) : links[i].dstTable = n }

\* C15: LocalGraph.validate() reports, for each table without a primary key,
\* as many INVALID_LINK errors as there are links to it, and none for a table
\* that has a primary key.
C15_InvalidLinkPerLink ==
    result.op = "validate" =>
        LET invalid == ErrorsOfType(result.value[1], "INVALID_LINK")
        IN  /\ \A k \in 1..Len(invalid) : invalid[k].table[1] \in TableNameSet
            /\ \A i \in 1..Len(tables) :
                  Cardinality({ k \in 1..Len(invalid) : invalid[k].table = Some(tables[i].name) })
                     = IF HasValue(tables[i].metadata.primaryKey)
                       THEN 0
                       ELSE Cardinality(LinksInto(tables[i].name))

\* validate() has reported INVALID_LINK twice for one destination without a
\* key, and not at all for a link whose destination has a key.
C15_Witness ==
    /\ result.op = "validate"
    /\ \E i, j \in 1..Len(tables) :
          /\ ~HasValue(tables[i].metadata.primaryKey)
          /\ Cardinality(LinksInto(tables[i].name)) = 2
          /\ Len(SelectSeq(result.value[1].errors,
                           LAMBDA e : e.type = "INVALID_LINK" /\ e.table = Some(tables[i].name))) = 2
          /\ HasValue(tables[j].metadata.primaryKey)
          /\ LinksInto(tables[j].name) # {}


\* C16: inferLinks() never raises; it only appends links, each to a table
\* that has a primary key at the time of the call; and when no table has a
\* primary key it leaves the link list as it was.
C16_InferLinksOnlyToKeyedTables ==
    [][result'.op = "inferLinks" =>
          (InferLinks =>
             /\ result'.threw = "none"
             /\ Len(links') >= Len(links)
             /\ SubSeq(links', 1, Len(links)) = links
             /\ \A k \in (Len(links) + 1)..Len(links') :
                   HasValue(GetTable(tables, links'[k].dstTable).metadata.primaryKey)
             /\ (\A i \in 1..Len(tables) : ~HasValue(tables[i].metadata.primaryKey))
                   => links' = links)]_vars

\* inferLinks() has run on a graph where a column names a table without a
\* primary key: the links it left all point to keyed tables, that one aside.
C16_Witness ==
    /\ result.op = "inferLinks" /\ result.threw = "none"
    /\ links # << >>
    /\ \E i, s \in 1..Len(tables) :
          /\ i # s
          /\ ~HasValue(tables[i].metadata.primaryKey)
          /\ \E c \in Range(Columns(tables[s])) :
                /\ HasIdSuffix(c) /\ NameMatches(c, tables[i].name)
                /\ \A k \in 1..Len(links) : Triple(links[k]) # <<tables[s].name, c, tables[i].name>>
    /\ \A k \in 1..Len(links) :
          HasValue(GetTable(tables, links[k].dstTable).metadata.primaryKey)


TriplesOf(lnks) == { Triple(lnks[k]) : k \in 1..Len(lnks) }

\* The triples C17 describes for the tables tbls.
C17_Described(tbls) ==
    LET n == Len(tbls)
        candidates == UNION { { <<s, c, d>> : c \in FirstRowKeys(tbls[s]) } :
                                s \in 1..n, d \in 1..n }
        Described(s, c, d) ==
            /\ s # d
            /\ EndsWith(c, <<"_", "i", "d">>) \/ EndsWith(c, <<"I", "d">>)
            /\ HasValue(tbls[d].metadata.primaryKey)
            /\ LET base == ToLowerCase(StripIdSuffix(c))
                   name == ToLowerCase(tbls[d].name)
               IN  base = name \/ base \o <<"s">> = name \/ base = name \o <<"s">>
    IN  { <<tbls[x[1]].name, x[2], tbls[x[3]].name>> :
             x \in { y \in candidates : Described(y[1], y[2], y[3]) } }

\* C17: inferLinks() on a graph without links leaves one link for each triple
\* (src, col, dst) with src # dst, col a column of src ending in _id or Id,
\* dst keyed, and the lower-cased stripped column name equal to the
\* lower-cased dst name, or equal once an s is appended to either; no other
\* link.  users keyed with orders gives {orders, user_id, users} alone;
\* users with order (column order_user_id) gives no link.
C17_InferredLinksAreTheDescribed ==
    /\ [][result'.op = "inferLinks" /\ links = << >> =>
             (InferLinks =>
                /\ TriplesOf(links') = C17_Described(tables)
                /\ Len(links') = Cardinality(C17_Described(tables))
                /\ TableNames(tables) = <<Str_users, Str_orders>>
                      /\ HasValue(tables[1].metadata.primaryKey)
                      => TriplesOf(links') = { <<Str_orders, Str_user_id, Str_users>> }
                /\ TableNames(tables) = <<Str_users, Str_order>> => links' = << >>)]_vars
    /\ [](result.op = "inferLinks" /\ links = << >> => C17_Described(tables) = {})

\* inferLinks() has linked the column user_id of orders to both users and
\* user in a graph whose three tables are keyed.
C17_Witness ==
    /\ result.op = "inferLinks"
    /\ Len(tables) = 3
    /\ AllKeyed
    /\ TriplesOf(links) = C17_Described(tables)
    /\ { <<Str_orders, Str_user_id, Str_users>>,
         <<Str_orders, Str_user_id, Str_user>> } \subseteq TriplesOf(links)


\* The graph of users and orders, inference run on both tables.
C18_UsersOrdersInferred ==
    /\ TableNames(tables) = <<Str_users, Str_orders>>
    /\ tables[1].data = UsersRows /\ tables[2].data = OrdersRows
    /\ tables[1].schema # None /\ tables[2].schema # None

C18_TheLink ==
    [srcTable |-> Str_orders, fkey |-> Str_user_id, dstTable |-> Str_users, validated |-> FALSE]

\* C18: for users = [{user_id:1},{user_id:2}] and orders = [{order_id:1,
\* user_id:1,amount:10},{order_id:2,user_id:2,amount:20}], after inferMetadata
\* on both, inferLinks() on the new graph leaves the one link {orders,
\* user_id, users}, and validate() then returns valid = true with no errors.
C18_EndToEnd ==
    /\ [][C18_UsersOrdersInferred /\ links = << >> /\ result'.op = "inferLinks" =>
             (InferLinks =>
                /\ links' = << C18_TheLink >>
                /\ validate(tables', links').valid
                /\ validate(tables', links').errors = << >>)]_vars
    /\ [](C18_UsersOrdersInferred /\ links = << C18_TheLink >> /\ result.op = "validate" =>
             /\ result.value[1].valid
             /\ result.value[1].errors = << >>
             /\ validated)

\* validate() has returned valid on the inferred users/orders graph with its
\* one inferred link.
C18_Witness ==
    /\ C18_UsersOrdersInferred
    /\ tables[1].metadata.primaryKey = Some(Str_user_id)
    /\ tables[2].metadata.primaryKey = Some(Str_order_id)
    /\ links = << C18_TheLink >>
    /\ result.op = "validate"
    /\ result.value[1].valid
    /\ result.value[1].errors = << >>


OtherClauseMethods == {"for", "where", "groupBy", "orderBy", "limit"}

\* C19 as claimed: build() raises ValidationError exactly when predict() was
\* never called on the builder, and returns a string in every state in which
\* predict() has been called.
C19_AsClaimed ==
    result.op = "build" =>
        /\ "predict" \notin called => result.threw = "ValidationError"
        /\ "predict" \in called => result.threw = "none" /\ HasValue(result.value)

\* C19 (amended): build() raises ValidationError exactly when predict() was
\* never called or was last called with the empty string, whatever other
\* clause methods were called; in every other state it returns a string.
C19_BuildNeedsNonEmptyTarget ==
    /\ "predict" \notin called <=> builder.predictTarget = None
    /\ result.op = "build" =>
          IF "predict" \notin called \/ builder.predictTarget = Some(<< >>)
          THEN result.threw = "ValidationError" /\ result.value = None
          ELSE result.threw = "none" /\ HasValue(result.value)

\* build() has raised on a builder on which every clause method was called,
\* predict() with the empty string.
C19_Witness ==
    /\ result.op = "build" /\ result.threw = "ValidationError"
    /\ called = OtherClauseMethods \cup {"predict"}
    /\ builder.predictTarget = Some(<< >>)
    /\ builder.forEntities # << >>
    /\ builder.limitCount # None


\* The positions at which sub occurs in s.
Occurrences(s, sub) ==
    { i \in 1..(Len(s) - Len(sub) + 1) : SubSeq(s, i, i + Len(sub) - 1) = sub }

\* The clause keywords after PREDICT in their fixed order, each with whether
\* the builder b has the clause populated.
ClauseKeywords(b) ==
    << <<Str__FOR_, b.forEntities # << >> >>,
       <<Str__WHERE_, b.whereClauses # << >> >>,
       <<Str__GROUP_BY_, b.groupByFields # << >> >>,
       <<Str__ORDER_BY_, b.orderByFields # << >> >>,
       <<Str__LIMIT_, b.limitCount # None>> >>

\* The calls of the builder scenario and what each does to a builder.
BuilderCalls ==
    ({"predict"} \X PredictInputs) \cup ({"for"} \X ForInputs) \cup ({"where"} \X WhereInputs)
       \cup ({"groupBy"} \X GroupByInputs) \cup ({"orderBy"} \X OrderByInputs)
       \cup ({"limit"} \X LimitInputs)

ApplyCall(b, c) ==
    CASE c[1] = "predict" -> predict(b, c[2])
      [] c[1] = "for" -> for(b, c[2])
      [] c[1] = "where" -> where(b, c[2])
      [] c[1] = "groupBy" -> groupBy(b, c[2])
      [] c[1] = "orderBy" -> orderBy(b, c[2])
      [] c[1] = "limit" -> limit(b, c[2])

\* C20: the string build() returns starts with PREDICT and holds the keyword
\* of each populated clause once, of no other clause, in the order FOR, WHERE,
\* GROUP BY, ORDER BY, LIMIT; and two calls to different clause methods give
\* the same builder, hence the same string, in either order, so that the
\* string does not depend on how calls to different methods are interleaved.
C20_FixedClauseOrder ==
    /\ result.op = "build" /\ result.threw = "none" =>
          LET q == result.value[1]
              kw == ClauseKeywords(builder)
          IN  /\ SubSeq(q, 1, Len(Str_PREDICT_)) = Str_PREDICT_
              /\ \A k \in 1..Len(kw) :
                    Cardinality(Occurrences(q, kw[k][1])) = IF kw[k][2] THEN 1 ELSE 0
              /\ \A j, k \in 1..Len(kw) :
                    j < k /\ kw[j][2] /\ kw[k][2] =>
                       \A x \in Occurrences(q, kw[j][1]), y \in Occurrences(q, kw[k][1]) : x < y
              /\ builder = for(predict(NewPQLBuilder, <<"x">>), << <<"u">> >>) =>
                    q = Str_PREDICT_ \o <<"x">> \o Str__FOR_ \o <<"u">>
    /\ result.op = "build" =>
          \A c1, c2 \in BuilderCalls :
             c1[1] # c2[1] =>
                LET b12 == ApplyCall(ApplyCall(builder, c1), c2)
                    b21 == ApplyCall(ApplyCall(builder, c2), c1)
                IN  b12 = b21 /\ build(b12) = build(b21)

\* build() has returned a string for a builder on which all six clause
\* methods were called, where() twice.
C20_Witness ==
    /\ result.op = "build" /\ result.threw = "none"
    /\ called = OtherClauseMethods \cup {"predict"}
    /\ \A k \in 1..5 : ClauseKeywords(builder)[k][2]
    /\ Len(builder.whereClauses) = 2
    /\ Len(builder.forEntities) = 2



\* The items of list written out one after another with sep between them.
Listed(list, sep) ==
    CASE Len(list) = 0 -> << >>
      [] Len(list) = 1 -> list[1]
      [] Len(list) = 2 -> list[1] \o sep \o list[2]
      [] Len(list) = 3 -> list[1] \o sep \o list[2] \o sep \o list[3]
      [] OTHER -> list[1] \o sep \o list[2] \o sep \o list[3] \o sep \o list[4]

IsPrefix(p, s) == Len(p) <= Len(s) /\ SubSeq(s, 1, Len(p)) = p

\* C21: each for() call appends its entities after those of earlier calls
\* and each where() call appends its condition after the earlier ones, and
\* neither touches any other field; the string build() returns lists every
\* FOR entity joined by ", " and every WHERE condition joined by " AND ", in
\* call order.
C21_ForWhereAccumulate ==
    /\ [](result.op = "build" /\ result.threw = "none" =>
            LET q == result.value[1]
                head == Str_PREDICT_ \o builder.predictTarget[1]
                fors == IF builder.forEntities = << >> THEN head
                        ELSE head \o Str__FOR_ \o Listed(builder.forEntities, <<",", " ">>)
                wheres == IF builder.whereClauses = << >> THEN fors
                          ELSE fors \o Str__WHERE_
                                    \o Listed(builder.whereClauses, <<" ", "A", "N", "D", " ">>)
            IN  IsPrefix(wheres, q))
    /\ [][/\ \A e \in ForInputs :
                For(e) => builder' = [builder EXCEPT !.forEntities = builder.forEntities \o e]
          /\ \A c \in WhereInputs :
                Where(c) => builder' = [builder EXCEPT
                                          !.whereClauses = builder.whereClauses \o <<c>>]]_vars

\* build() has returned a string for a builder whose two FOR entities came
\* from two for() calls and whose two conditions came from two where() calls.
C21_Witness ==
    /\ result.op = "build" /\ result.threw = "none"
    /\ builder.forEntities = << <<"u">>, <<"u">> >>
    /\ builder.whereClauses = << <<"v">>, <<"w">> >>
    /\ result.value[1] = Str_PREDICT_ \o <<"x">> \o Str__FOR_ \o <<"u", ",", " ", "u">>
                            \o Str__WHERE_ \o <<"v", " ", "A", "N", "D", " ", "w">>



\* C22 as claimed: each groupBy() call replaces the group-by fields and each
\* orderBy() call replaces the order-by fields, so that after any such call
\* the builder holds, and build() renders, only the fields of that call.
C22_AsClaimed ==
    [][/\ \A f \in GroupByInputs :
             GroupBy(f) =>
                /\ builder'.groupByFields = f
                /\ build(predict(builder', <<"x">>)).value[1]
                     = build(predict([builder EXCEPT !.groupByFields = f], <<"x">>)).value[1]
       /\ \A f \in OrderByInputs :
             OrderBy(f) =>
                /\ builder'.orderByFields = f
                /\ build(predict(builder', <<"x">>)).value[1]
                     = build(predict([builder EXCEPT !.orderByFields = f], <<"x">>)).value[1]]_vars



\* The positions of q at which sub stands, letter case aside.
CiOccurrences(q, sub) ==
    { i \in 1..(Len(q) - Len(sub) + 1) : toUpperCase(SubSeq(q, i, i + Len(sub) - 1)) = sub }

Least(S) == CHOOSE i \in S : \A j \in S : i <= j

Blank(s) == \A i \in 1..Len(s) : s[i] = " "

\* s without the blanks at its two ends.
Trimmed(s) ==
    IF Blank(s) THEN << >>
    ELSE LET solid == { i \in 1..Len(s) : s[i] # " " }
         IN  SubSeq(s, Least(solid), CHOOSE i \in solid : \A j \in solid : j <= i)

\* The text between the first PREDICT and the first FOR after it, or the end
\* of q, trimmed.
C23_TextBeforeFirstFor(q) ==
    LET start == Least(CiOccurrences(q, Str_PREDICT_)) + Len(Str_PREDICT_)
        fors == { i \in CiOccurrences(q, Str__FOR_) : i >= start }
    IN  Trimmed(SubSeq(q, start, IF fors = { } THEN Len(q) ELSE Least(fors) - 1))

C23_TargetText(q) ==
    LET start == Least(CiOccurrences(q, Str_PREDICT_)) + Len(Str_PREDICT_)
        fors == { i \in CiOccurrences(q, Str__FOR_) :
                    /\ i >= start
                    /\ ~Blank(SubSeq(q, start, i - 1))
                    /\ ~Blank(SubSeq(q, i + Len(Str__FOR_), Len(q))) }
    IN  Trimmed(SubSeq(q, start, IF fors = { } THEN Len(q) ELSE Least(fors) - 1))

C24_AsClaimed ==
    result.op = "parse" =>
       \A t, e \in { <<"x">>, <<"u">> } :
          LET q == Str_PREDICT_ \o t \o Str__FOR_ \o e
              rebuilt == build(builder)
          IN  /\ result.args[1] = q => rebuilt = [threw |-> "none", value |-> Some(q)]
              /\ result.args[1] = q \o Str__WHERE_ \o <<"v">> =>
                    /\ rebuilt.threw = "none"
                    /\ Occurrences(rebuilt.value[1], Str_PREDICT_ \o t) # { }
                    /\ Occurrences(rebuilt.value[1], SubSeq(Str__FOR_, 2, 5) \o e) # { }



\* The values of a column that are neither null nor undefined.
Present(values) == SelectSeq(values, LAMBDA v : v.k \notin {"null", "undefined"})

AllOfKind(values, kinds) == \A i \in 1..Len(values) : values[i].k \in kinds

\* C25 as claimed: the checks run in the order temporal, numerical,
\* categorical, text.  A column whose values, nulls aside, are all dates is
\* temporal; otherwise one whose values are all numbers or numeric strings is
\* numerical, however few of them are distinct; otherwise the column is
\* categorical exactly when fewer than half of the values are distinct, else
\* text; a column of nulls is text.  So "1","2","1","2" is numerical and two
\* ISO dates are temporal.
C25_AsClaimed ==
    result.op = "inferColumnType" =>
       LET present == Present(result.args[1])
           type == result.value[1]
       IN  /\ IF present = << >> THEN type = "text"
              ELSE IF AllOfKind(present, {"isodate"}) THEN type = "time_column"
              ELSE IF AllOfKind(present, {"number", "numstr"}) THEN type = "numerical"
              ELSE IF 2 * Cardinality(Range(present)) < Len(present) THEN type = "categorical"
              ELSE type = "text"
           /\ result.args[1] = <<VNumStr(1), VNumStr(2), VNumStr(1), VNumStr(2)>>
                 => type = "numerical"
           /\ result.args[1] = <<VDate(1), VDate(2)>> => type = "time_column"



\* C26 as claimed: after inferMetadata() semanticTypes has an entry for every
\* column of the table; a column of numbers is recorded as numerical, a column
\* of ISO date strings as time_column, and a column of strings that are
\* neither numbers nor dates as categorical, also when its values are all
\* different.
C26_AsClaimed ==
    result.op = "inferMetadata" /\ result.threw = "none" =>
       LET t == tables[1]
       IN  \A i \in 1..Len(Columns(t)) :
              LET c == Columns(t)[i]
                  values == ColumnData(t, c)
                  types == t.metadata.semanticTypes
              IN  /\ HasEntry(types, c)
                  /\ AllOfKind(values, {"number"}) => GetEntry(types, c) = "numerical"
                  /\ AllOfKind(values, {"isodate"}) => GetEntry(types, c) = "time_column"
                  /\ AllOfKind(values, {"text"}) => GetEntry(types, c) = "categorical"



\* C27: the cached validity flag is false in a new graph; a validate() call
\* leaves it true exactly when the error list it returns is empty, and
\* nothing else makes it true; a link() or unlink() call that succeeds leaves
\* it false, one that raises leaves it as it was, and so do setPrimaryKey,
\* setTimeColumn and inferMetadata on a table of the graph.
C27_ValidityFlag ==
    /\ [](result.op = "new" => ~validated)
    /\ [][/\ result'.op = "validate" => (validated' <=> result'.value[1].errors = << >>)
          /\ validated' /\ ~validated => result'.op = "validate"
          /\ result'.op \in {"link", "unlink"} =>
                validated' = IF result'.threw = "none" THEN FALSE ELSE validated
          /\ result'.op \in {"setPrimaryKey", "setTimeColumn", "inferMetadata"} =>
                validated' = validated]_vars

\* A link() call has raised on a graph that validate() had found valid, and
\* the flag is still true.
C27_Witness ==
    /\ validated
    /\ result.op = "link" /\ result.threw # "none"
    /\ links # << >>



WarningsOfType(r, type) == SelectSeq(r.warnings, LAMBDA w : w.type = type)

\* C28: validate() returns valid exactly when every table of the graph has
\* a primary key and the links hold no directed cycle; every INVALID_LINK
\* error comes with a MISSING_PRIMARY_KEY error for the same table; and
\* warnings do not make the result invalid.
C28_ValidIffKeyedAndAcyclic ==
    result.op = "validate" =>
        LET r == result.value[1]
            invalid == ErrorsOfType(r, "INVALID_LINK")
            missing == ErrorsOfType(r, "MISSING_PRIMARY_KEY")
        IN  /\ r.valid <=> (AllKeyed /\ ~HasDirectedCycle(Edges(links)))
            /\ \A k \in 1..Len(invalid) :
                  \E m \in 1..Len(missing) : missing[m].table = invalid[k].table
            /\ validated = r.valid

\* validate() has found a graph valid while warning of a column that is
\* mostly null and of a foreign key that can be null.
C28_Witness ==
    /\ result.op = "validate" /\ result.value[1].valid
    /\ WarningsOfType(result.value[1], "HIGH_NULL_RATE") # << >>
    /\ WarningsOfType(result.value[1], "NULLABLE_FOREIGN_KEY") # << >>
    /\ links # << >>



\* C29 as claimed: a table whose timeColumn was set to a column c by
\* setTimeColumn or by inferMetadata has semanticTypes[c] = time_column, and
\* this stays so through every later setTimeColumn, setPrimaryKey and
\* inferMetadata call.
C29_AsClaimed ==
    [][/\ result'.op \in {"setTimeColumn", "inferMetadata"} /\ result'.threw = "none"
          /\ HasValue(tables'[1].metadata.timeColumn)
          /\ tables'[1].metadata.timeColumn # tables[1].metadata.timeColumn
          => /\ HasEntry(tables'[1].metadata.semanticTypes, tables'[1].metadata.timeColumn[1])
             /\ GetEntry(tables'[1].metadata.semanticTypes,
                         tables'[1].metadata.timeColumn[1]) = "time_column"
       /\ /\ result'.op \in {"setTimeColumn", "setPrimaryKey", "inferMetadata"}
          /\ HasValue(tables[1].metadata.timeColumn)
          /\ HasEntry(tables[1].metadata.semanticTypes, tables[1].metadata.timeColumn[1])
          /\ GetEntry(tables[1].metadata.semanticTypes,
                      tables[1].metadata.timeColumn[1]) = "time_column"
          => /\ HasValue(tables'[1].metadata.timeColumn)
             /\ HasEntry(tables'[1].metadata.semanticTypes, tables'[1].metadata.timeColumn[1])
             /\ GetEntry(tables'[1].metadata.semanticTypes,
                         tables'[1].metadata.timeColumn[1]) = "time_column"]_vars



\* C30: a second inferLinks() call on unchanged tables adds nothing and
\* leaves the link list as the first call left it, in content and order,
\* whatever links were made by hand before the first call.
C30_InferLinksIdempotent ==
    /\ LET first == inferLinks(tables, links)
           second == inferLinks(tables, first.links)
       IN  second.links = first.links /\ ~second.linked
    /\ result.op = "inferLinks" =>
          inferLinks(tables, links) = [links |-> links, linked |-> FALSE]

\* inferLinks() has run on a list that began with links made by hand in an
\* order other than its own, and left all three links of the cycle.
C30_Witness ==
    /\ result.op = "inferLinks"
    /\ Len(links) = 3
    /\ Triple(links[1]) = <<Str_C, Str_as_id, Str_a>>
    /\ Triple(links[2]) = <<Str_bs, Str_cId, Str_C>>
    /\ Triple(links[3]) = <<Str_a, Str_b_id, Str_bs>>
    /\ inferLinks(tables, << links[1], links[2] >>).links = links

====
